---- MODULE Spec2Model ----
(***************************************************************************)
(* pdflex: the PDF lexer (package pdflex, lexer.go) and the xref fix-up    *)
(* parser built on it (Parser.FixXrefs).                                   *)
(*                                                                         *)
(* A byte is a one-character string; a Go string or []byte is a sequence   *)
(* of bytes.  Positions are Go's 0-based byte offsets: the byte at offset  *)
(* p of s is s[p + 1].  Every rune of the modelled alphabet is one byte    *)
(* wide.  The lexer goroutine and its consumer meet on the unbuffered      *)
(* channel l.items: the variable items holds what the running state        *)
(* function has sent and the consumer has not yet received, and the        *)
(* producer does not enter its next state function before it is empty.     *)
(***************************************************************************)
EXTENDS Integers, Sequences, FiniteSets, TLC

VARIABLES
    input,       \* Lexer.input
    pos,         \* Lexer.pos
    start,       \* Lexer.start
    state,       \* Lexer.state: the next state function, "nil" when run() is over
    arrayDepth,  \* Lexer.arrayDepth
    dictDepth,   \* Lexer.dictDepth
    items,       \* Lexer.items: items sent and not yet received
    lastPos,     \* Lexer.lastPos
    pc,          \* where the consumer stands (the NextItem call it is at)
    State,       \* Parser.State
    From,        \* Parser.From
    LastXref,    \* Parser.LastXref
    Idx,         \* Parser.Idx
    Offset,      \* Parser.Offset
    Entries,     \* Parser.Entries
    Scratch,     \* Parser.Scratch (the test loop's bytes.Buffer b under SpecLex)
    i,           \* FixXrefs' entryLoop counter
    bailout,     \* FindRow's bailout
    row,         \* FindRow's result r
    zipped,      \* shrink's zipped
    asc85,       \* shrink's asc85
    toks,        \* history: every item NextItem has returned, in order
    hist,        \* history: what the parser did, as a sequence of events
    doc          \* history: how the input was drawn (see Docs)

lexvars == <<input, pos, start, state, arrayDepth, dictDepth>>
pvars == <<State, From, LastXref, Idx, Offset, Entries, Scratch, i, bailout, row>>
shvars == <<zipped, asc85>>
vars == <<input, pos, start, state, arrayDepth, dictDepth, items, lastPos, pc,
          State, From, LastXref, Idx, Offset, Entries, Scratch, i, bailout,
          row, zipped, asc85, toks, hist, doc>>

---------------------------------------------------------------------------
(* Bytes and character classes                                             *)

LF == "\n"
CR == "\r"
SP == " "
TAB == "\t"
DEL == "DEL"      \* the byte 0x7f: not printable, not a space
NUL == "NUL"      \* the zero rune (an unassigned `var r rune`)
EOFR == "-1"      \* const eof = -1, what next() returns at the end of input

DigitChars == {"0", "1", "2", "3", "4", "5", "6", "7", "8", "9"}
Letters == {"a", "b", "c", "d", "e", "f", "g", "h", "i", "j", "k", "l", "m",
            "n", "o", "p", "q", "r", "s", "t", "u", "v", "w", "x", "y", "z",
            "A", "B", "E", "F", "K", "O", "Q", "R"}
\* unicode.IsSpace, on the modelled alphabet
UnicodeSpace == {SP, TAB, LF, CR}

isEndOfLine(r) == r = CR \/ r = LF
isSpace(r) == r \in UnicodeSpace /\ ~isEndOfLine(r)
isDelim(r) == r \in {"[", "]", "{", "}", "(", ")", "<", ">", "/", "%"}
isAlphaNumeric(r) == r = "_" \/ r \in Letters \/ r \in DigitChars
\* 0x20 < r && r < 0x7f
isPrintable(r) == r \notin UnicodeSpace \cup {DEL, NUL, EOFR}

EOLSet == {r \in UnicodeSpace : isEndOfLine(r)}
SpaceSet == {r \in UnicodeSpace : isSpace(r)}
AlphaNumSet == Letters \cup DigitChars \cup {"_"}
\* every byte an input of the model can hold
Alphabet == AlphaNumSet \cup UnicodeSpace \cup
            {"[", "]", "{", "}", "(", ")", "<", ">", "/", "%",
             "+", "-", ".", "\\", DEL}

---------------------------------------------------------------------------
(* Item types and keywords                                                 *)

ItemError == "ItemError"
ItemEOF == "ItemEOF"
ItemNumber == "ItemNumber"
ItemSpace == "ItemSpace"
ItemEOL == "ItemEOL"
ItemLeftDict == "ItemLeftDict"
ItemRightDict == "ItemRightDict"
ItemLeftArray == "ItemLeftArray"
ItemRightArray == "ItemRightArray"
ItemStreamBody == "ItemStreamBody"
ItemString == "ItemString"
ItemHexString == "ItemHexString"
ItemComment == "ItemComment"
ItemName == "ItemName"
ItemWord == "ItemWord"
ItemObj == "ItemObj"
ItemEndObj == "ItemEndObj"
ItemStream == "ItemStream"
ItemEndStream == "ItemEndStream"
ItemTrailer == "ItemTrailer"
ItemXref == "ItemXref"
ItemStartXref == "ItemStartXref"
ItemTrue == "ItemTrue"
ItemFalse == "ItemFalse"
ItemNull == "ItemNull"

leftDict == <<"<", "<">>
rightDict == <<">", ">">>
leftStream == <<"s", "t", "r", "e", "a", "m">>
rightStream == <<"e", "n", "d", "s", "t", "r", "e", "a", "m">>
kwObj == <<"o", "b", "j">>
kwEndObj == <<"e", "n", "d", "o", "b", "j">>
kwTrailer == <<"t", "r", "a", "i", "l", "e", "r">>
kwXref == <<"x", "r", "e", "f">>
kwStartXref == <<"s", "t", "a", "r", "t", "x", "r", "e", "f">>
kwTrue == <<"t", "r", "u", "e">>
kwFalse == <<"f", "a", "l", "s", "e">>
kwNull == <<"n", "u", "l", "l">>

\* keytoks[w]: the keyword's item type, "" when w is no key of the map
keytoks(w) ==
    CASE w = kwObj -> ItemObj
      [] w = kwEndObj -> ItemEndObj
      [] w = leftStream -> ItemStream
      [] w = rightStream -> ItemEndStream
      [] w = kwTrailer -> ItemTrailer
      [] w = kwXref -> ItemXref
      [] w = kwStartXref -> ItemStartXref
      [] w = kwTrue -> ItemTrue
      [] w = kwFalse -> ItemFalse
      [] w = kwNull -> ItemNull
      [] OTHER -> ""

\* An Error item's Val is the message text; the model keeps a message as one
\* opaque element, which is no byte of any input.
Msg(m) == <<m>>

Item(t, p, v) == [Typ |-> t, Pos |-> p, Val |-> v]

---------------------------------------------------------------------------
(* Lexer primitives                                                        *)

\* the rune next() returns when l.pos = p
Rune(p) == IF p >= Len(input) THEN EOFR ELSE input[p + 1]
\* l.pos after next() when l.pos = p
Fwd(p) == IF p >= Len(input) THEN p ELSE p + 1
\* l.input[a:b]
Slice(a, b) == SubSeq(input, a + 1, b)

\* an accept that never consumes
accept_Never(valid, p) == p

\* accept(valid) at l.pos = p: the new l.pos
accept(valid, p) == IF Rune(p) \in valid THEN Fwd(p) ELSE p

\* acceptRun(valid), and every `for pred(l.peek()) { l.next() }` loop
RECURSIVE acceptRun(_, _)
acceptRun(valid, p) ==
    IF Rune(p) \in valid THEN acceptRun(valid, Fwd(p)) ELSE p

\* strings.Index(s[from:], pat) + from, or -1
IndexFrom(s, pat, from) ==
    LET hits == {k \in from .. (Len(s) - Len(pat)) :
                    SubSeq(s, k + 1, k + Len(pat)) = pat}
    IN IF hits = {} THEN -1
       ELSE CHOOSE k \in hits : \A m \in hits : k <= m

\* emit(t) with l.start = s and l.pos = p
emit(t, s, p) == Item(t, s, Slice(s, p))
\* errorf(msg) with l.start = s
errorf(m, s) == Item(ItemError, s, Msg(m))

---------------------------------------------------------------------------
(* The state functions.  Each yields what one call of it leaves behind:    *)
(* l.pos, l.start, the depths, the state function it returns ("nil" ends   *)
(* run()) and the items it sent, in order.                                 *)

Res(p, s, st, ad, dd, out) ==
    [pos |-> p, start |-> s, state |-> st, arrayDepth |-> ad,
     dictDepth |-> dd, out |-> out]

\* an emit that forgets `l.start = l.pos`
EmitTo_KeepStart(t, p, st) ==
    Res(p, start, st, arrayDepth, dictDepth, <<emit(t, start, p)>>)
\* one emit followed by `return st`
EmitTo(t, p, st) ==
    Res(p, p, st, arrayDepth, dictDepth, <<emit(t, start, p)>>)
\* an errorf that reports offset 0 instead of l.start
Fail_AtZero(m, p) ==
    Res(p, start, "nil", arrayDepth, dictDepth, <<errorf(m, 0)>>)
\* `return l.errorf(m)` with l.pos = p
Fail(m, p) ==
    Res(p, start, "nil", arrayDepth, dictDepth, <<errorf(m, start)>>)
\* `return st` without an emit
Goto(st, p) == Res(p, start, st, arrayDepth, dictDepth, <<>>)

lexDefaultEOF_DictFirst(p) ==
    IF dictDepth > 0 THEN Fail("unterminated dict", p)
    ELSE IF arrayDepth > 0 THEN Fail("unterminated array", p)
    ELSE EmitTo(ItemEOF, p, "nil")

lexDefaultEOF_Again(p) ==
    IF arrayDepth > 0 THEN Fail("unterminated array", p)
    ELSE IF dictDepth > 0 THEN Fail("unterminated dict", p)
    ELSE EmitTo(ItemEOF, p, "lexDefault")

\* lexDefault, case r == eof (and what the stray '>' falls through to),
\* with l.pos = p
lexDefaultEOF(p) ==
    IF arrayDepth > 0 THEN Fail("unterminated array", p)
    ELSE IF dictDepth > 0 THEN Fail("unterminated dict", p)
    ELSE EmitTo(ItemEOF, p, "nil")

\* lexDefault, case r == '>' with l.pos = p after the next()
lexDefaultGt(p) ==
    IF Rune(p) = ">"
    THEN IF dictDepth - 1 < 0
         THEN Res(p, start, "nil", arrayDepth, dictDepth - 1,
                  <<errorf("unexexpected dict terminator", start)>>)
         ELSE Res(p - 1, start, "lexRightDict", arrayDepth, dictDepth - 1, <<>>)
    ELSE lexDefaultEOF(p)

lexDefaultRightArray_NoCheck(p) ==
    Res(p, p, "lexDefault", arrayDepth - 1, dictDepth,
        <<emit(ItemRightArray, start, p)>>)

\* lexDefault, case r == ']' with l.pos = p after the next()
lexDefaultRightArray(p) ==
    IF arrayDepth - 1 < 0
    THEN Res(p, start, "nil", arrayDepth - 1, dictDepth,
             <<errorf("unexexpected array terminator", start)>>)
    ELSE Res(p, p, "lexDefault", arrayDepth - 1, dictDepth,
             <<emit(ItemRightArray, start, p)>>)

lexDefaultRes ==
    LET r == Rune(pos)
        p == Fwd(pos)
    IN CASE r = CR -> EmitTo(ItemEOL, accept({LF}, p), "lexDefault")
         [] r = LF -> EmitTo(ItemEOL, p, "lexDefault")
         [] r \in UnicodeSpace \ {CR, LF} -> Goto("lexSpace", p)
         [] r = "/" -> Goto("lexName", p)
         [] r \in {"+", "-", "."} \cup DigitChars -> Goto("lexNumber", pos)
         [] r \in AlphaNumSet \ DigitChars -> Goto("lexWord", p)
         [] r = "(" -> Goto("lexStringObj", p)
         [] r = "<" ->
              IF Rune(p) = "<"
              THEN Res(p - 1, start, "lexLeftDict", arrayDepth, dictDepth + 1, <<>>)
              ELSE Goto("lexHexObj", p)
         [] r = "[" ->
              Res(p, p, "lexDefault", arrayDepth + 1, dictDepth,
                  <<emit(ItemLeftArray, start, p)>>)
         [] r = "]" -> lexDefaultRightArray(p)
         [] r = "%" -> Goto("lexComment", p)
         [] r = ">" -> lexDefaultGt(p)
         [] r = EOFR -> lexDefaultEOF(p)
         [] OTHER -> Fail("illegal character", p)

\* scanEOL with l.pos = p: <<ok, l.pos>>
scanEOL(p) ==
    IF ~isEndOfLine(Rune(p)) THEN <<FALSE, p>>
    ELSE IF Rune(p) = CR THEN <<TRUE, accept({LF}, Fwd(p))>>
    ELSE <<TRUE, Fwd(p)>>

\* a walk back that removes nothing
trimSpace_None(s) == s

\* lexStream's backward walk over trailing whitespace: the length kept
RECURSIVE trimSpace(_)
trimSpace(s) ==
    IF Len(s) > 0 /\ s[Len(s)] \in UnicodeSpace
    THEN trimSpace(SubSeq(s, 1, Len(s) - 1))
    ELSE s

lexStreamRes ==
    LET eol == scanEOL(pos)
        p == eol[2]
        k == IndexFrom(input, rightStream, p)
        body == trimSpace(Slice(p, k))
        q == p + Len(body)
    IN IF ~eol[1]
       THEN Fail("expected EOL terminator for stream keyword", pos)
       ELSE IF k < 0
       THEN Res(p, p, "nil", arrayDepth, dictDepth,
                <<emit(ItemEOL, start, p), errorf("unclosed stream", p)>>)
       ELSE Res(q, q, "lexDefault", arrayDepth, dictDepth,
                <<emit(ItemEOL, start, p), Item(ItemStreamBody, p, Slice(p, q))>>)

lexLeftDictRes == EmitTo(ItemLeftDict, pos + Len(leftDict), "lexDefault")
lexRightDictRes == EmitTo(ItemRightDict, pos + Len(rightDict), "lexDefault")

\* lexComment: the loop leaves l.pos at the first EOL byte or at the end of
\* input; r is the last rune it consumed (the zero rune when none)
lexCommentRes ==
    LET p == acceptRun(Alphabet \ EOLSet, pos)
        r == IF p > pos THEN input[p] ELSE NUL
    IN IF Rune(p) = EOFR THEN EmitTo(ItemComment, p, "lexDefault")
       ELSE IF r = CR THEN EmitTo(ItemComment, accept({LF}, p), "lexDefault")
       ELSE EmitTo(ItemComment, p, "lexDefault")

\* lexName's loop with l.pos = p: <<ok, l.pos>>
RECURSIVE scanName(_)
scanName(p) ==
    LET r == Rune(p)
    IN IF isDelim(r) \/ r \in UnicodeSpace \/ r = EOFR THEN <<TRUE, p>>
       ELSE IF isPrintable(r) THEN scanName(Fwd(p))
       ELSE <<FALSE, Fwd(p)>>

lexNameRes ==
    LET n == scanName(pos)
    IN IF n[1] THEN EmitTo(ItemName, n[2], "lexDefault")
       ELSE Fail("illegal character in name", n[2])

\* lexStringObj, case r == '\\' with l.pos = p after the next()
stringEscape(p) == accept({"(", ")"}, p)

\* lexStringObj's loop with l.pos = p: <<ok, l.pos>>
RECURSIVE scanString(_, _)
scanString(p, balance) ==
    LET r == Rune(p)
        q == Fwd(p)
    IN CASE r = "\\" -> scanString(stringEscape(q), balance)
         [] r = "(" -> scanString(q, balance + 1)
         [] r = ")" -> IF balance - 1 <= 0 THEN <<TRUE, q>>
                       ELSE scanString(q, balance - 1)
         [] r = EOFR -> <<FALSE, q>>
         [] OTHER -> scanString(q, balance)

lexStringObjRes ==
    LET n == scanString(pos, 1)
    IN IF n[1] THEN EmitTo(ItemString, n[2], "lexDefault")
       ELSE Fail("unterminated string object", n[2])

HexDigits == DigitChars \cup {"a", "b", "c", "d", "e", "f", "A", "B", "C", "D", "E", "F"}

\* lexHexObj's loop with l.pos = p: <<"ok" | message, l.pos>>
RECURSIVE scanHex(_)
scanHex(p) ==
    LET r == Rune(p)
    IN IF r \in HexDigits \/ r \in UnicodeSpace THEN scanHex(Fwd(p))
       ELSE IF r = ">" THEN <<"ok", Fwd(p)>>
       ELSE IF r = EOFR THEN <<"unterminated hexstring", p>>
       ELSE <<"illegal character in hexstring", Fwd(p)>>

lexHexObjRes ==
    LET n == scanHex(pos)
    IN IF n[1] = "ok" THEN EmitTo(ItemHexString, n[2], "lexDefault")
       ELSE Fail(n[1], n[2])

lexSpaceRes == EmitTo(ItemSpace, acceptRun(SpaceSet, pos), "lexDefault")

lexWordRes ==
    LET p == acceptRun(AlphaNumSet, pos)
        tok == keytoks(Slice(start, p))
    IN IF tok # ""
       THEN EmitTo(tok, p, IF tok = ItemStream THEN "lexStream" ELSE "lexDefault")
       ELSE EmitTo(ItemWord, p, "lexDefault")

\* scanNumber with l.pos = p: <<ok, l.pos>>
scanNumber(p) ==
    LET p1 == accept({"+", "-"}, p)
        p2 == acceptRun(DigitChars, p1)
        p3 == IF Rune(p2) = "." THEN acceptRun(DigitChars, Fwd(p2)) ELSE p2
        r == Rune(p3)
    IN IF isDelim(r) \/ r \in UnicodeSpace \/ r = EOFR THEN <<TRUE, p3>>
       ELSE <<FALSE, Fwd(p3)>>

lexNumberRes ==
    LET n == scanNumber(pos)
    IN IF n[1] THEN EmitTo(ItemNumber, n[2], "lexDefault")
       ELSE Fail("bad number syntax", n[2])

\* one turn of run()'s loop: l.state = l.state(l), up to the point where
\* everything the state function sent has been received
RunState(R) ==
    /\ items = <<>>
    /\ pos' = R.pos
    /\ start' = R.start
    /\ state' = R.state
    /\ arrayDepth' = R.arrayDepth
    /\ dictDepth' = R.dictDepth
    /\ items' = R.out
    /\ UNCHANGED <<input, lastPos, pc, pvars, shvars, toks, hist, doc>>

lexDefault ==
    /\ state = "lexDefault"
    /\ RunState(lexDefaultRes)

lexStream ==
    /\ state = "lexStream"
    /\ RunState(lexStreamRes)

lexLeftDict ==
    /\ state = "lexLeftDict"
    /\ RunState(lexLeftDictRes)

lexRightDict ==
    /\ state = "lexRightDict"
    /\ RunState(lexRightDictRes)

lexComment ==
    /\ state = "lexComment"
    /\ RunState(lexCommentRes)

lexName ==
    /\ state = "lexName"
    /\ RunState(lexNameRes)

lexStringObj ==
    /\ state = "lexStringObj"
    /\ RunState(lexStringObjRes)

lexHexObj ==
    /\ state = "lexHexObj"
    /\ RunState(lexHexObjRes)

lexSpace ==
    /\ state = "lexSpace"
    /\ RunState(lexSpaceRes)

lexWord ==
    /\ state = "lexWord"
    /\ RunState(lexWordRes)

lexNumber ==
    /\ state = "lexNumber"
    /\ RunState(lexNumberRes)


\* the lexer goroutine (go l.run())
run ==
    \/ lexDefault
    \/ lexStream
    \/ lexLeftDict
    \/ lexRightDict
    \/ lexComment
    \/ lexName
    \/ lexStringObj
    \/ lexHexObj
    \/ lexSpace
    \/ lexWord
    \/ lexNumber

---------------------------------------------------------------------------
(* The consumer side                                                       *)

outside == "outside"
inside == "inside"
eof == "eof"

\* the zero Row
Row0 == [Offset |-> 0, Generation |-> 0, Active |-> FALSE]

\* NextItem: the receive `item := <-l.items` and the write of l.lastPos
NextItem(item) ==
    /\ items # <<>>
    /\ item = Head(items)
    /\ items' = Tail(items)
    /\ lastPos' = item.Pos
    /\ toks' = Append(toks, item)
    /\ UNCHANGED lexvars

\* lexer_test.go TestRewrite's loop:
\*   for i := l.NextItem(); i.Typ != ItemEOF; i = l.NextItem() { b.WriteString(i.Val) }
TestLoop ==
    /\ pc = "TestLoop"
    /\ items # <<>>
    /\ \E item \in {Head(items)} :
          /\ NextItem(item)
          /\ IF item.Typ # ItemEOF
             THEN /\ Scratch' = Scratch \o item.Val
                  /\ pc' = "TestLoop"
             ELSE /\ Scratch' = Scratch
                  /\ pc' = "done"
    /\ UNCHANGED <<State, From, LastXref, Idx, Offset, Entries, i, bailout, row,
                   shvars, hist, doc>>

---------------------------------------------------------------------------
(* strconv.Atoi and fmt.Sprintf                                            *)

DigitVal(c) ==
    CASE c = "0" -> 0 [] c = "1" -> 1 [] c = "2" -> 2 [] c = "3" -> 3
      [] c = "4" -> 4 [] c = "5" -> 5 [] c = "6" -> 6 [] c = "7" -> 7
      [] c = "8" -> 8 [] c = "9" -> 9

DigitChar(d) == <<"0", "1", "2", "3", "4", "5", "6", "7", "8", "9">>[d + 1]

RECURSIVE DecValue(_)
DecValue(ds) ==
    IF ds = <<>> THEN 0
    ELSE 10 * DecValue(SubSeq(ds, 1, Len(ds) - 1)) + DigitVal(ds[Len(ds)])

\* strconv.Atoi(s): <<err == nil, n>>
Atoi(s) ==
    LET signed == s # <<>> /\ s[1] \in {"+", "-"}
        ds == IF signed THEN Tail(s) ELSE s
    IN IF ds = <<>> \/ \E k \in 1 .. Len(ds) : ds[k] \notin DigitChars
       THEN <<FALSE, 0>>
       ELSE <<TRUE, IF s[1] = "-" THEN 0 - DecValue(ds) ELSE DecValue(ds)>>

RECURSIVE Digits(_)
Digits(n) ==
    IF n < 10 THEN <<DigitChar(n)>>
    ELSE Digits(n \div 10) \o <<DigitChar(n % 10)>>

RECURSIVE Zeros(_)
Zeros(n) == IF n <= 0 THEN <<>> ELSE <<"0">> \o Zeros(n - 1)

\* fmt.Sprintf("%d", n)
FormatInt(n) == IF n < 0 THEN <<"-">> \o Digits(0 - n) ELSE Digits(n)

\* fmt.Sprintf("%.<prec>d", n): at least prec digits, after the sign
FormatPrec(n, prec) ==
    LET ds == Digits(IF n < 0 THEN 0 - n ELSE n)
    IN (IF n < 0 THEN <<"-">> ELSE <<>>) \o Zeros(prec - Len(ds)) \o ds

\* fmt.Sprintf("%.10d %.5d n", off, gen), with the flag given
FormatRow(off, gen, flag) ==
    FormatPrec(off, 10) \o <<SP>> \o FormatPrec(gen, 5) \o <<SP, flag>>

objSuffix == <<SP, "0", SP, "o", "b", "j">>

\* locateObj(in, K)
locateObj(in, K) ==
    LET idx == IndexFrom(in, <<LF>> \o FormatInt(K) \o objSuffix, 0)
        idx2 == IndexFrom(in, <<CR>> \o FormatInt(K) \o objSuffix, 0)
    IN IF idx < 0
       THEN IF idx2 < 0 THEN idx2 ELSE idx2 + 1
       ELSE idx + 1

---------------------------------------------------------------------------
(* The parser.  P is the Parser (and FixXrefs' locals) as a record; each   *)
(* operator below yields the record one stretch of code leaves behind.     *)

Cur ==
    [State |-> State, From |-> From, LastXref |-> LastXref, Idx |-> Idx,
     Offset |-> Offset, Entries |-> Entries, Scratch |-> Scratch, i |-> i,
     bailout |-> bailout, row |-> row, pc |-> pc, hist |-> hist]

Event(P, e) == [P EXCEPT !.hist = Append(@, e)]
At(P, where) == [P EXCEPT !.pc = where]

PanicInXref == "panic: [BUG] MaybeFindXref() called while still in an xref"
PanicNoXref == "panic: [BUG] No xref found but not at EOF!"
PanicHeader == "panic: BUG: logic broken in MaybeFindHeader"
PanicLegit == "panic: BUG: SeemsLegit() failed after we found a header!"
PanicSlice == "panic: runtime error: slice bounds out of range"
Panics == {PanicInXref, PanicNoXref, PanicHeader, PanicLegit, PanicSlice}

\* p.Scratch.WriteString(s)
WriteString(P, s) == [P EXCEPT !.Scratch = @ \o s]

\* p.Scratch.WriteString(item.Val), noting where a keyword went
WriteItem(P, item) ==
    LET Q == WriteString(P, item.Val)
    IN IF item.Typ \in {ItemXref, ItemStartXref}
       THEN Event(Q, [ev |-> "kw", typ |-> item.Typ, at |-> Len(P.Scratch),
                      pos |-> item.Pos])
       ELSE Q

\* a From that stands behind the last byte written
ResetFrom_Len(P) == Len(P.Scratch)

\* the value ResetToHere gives p.From
ResetFrom(P) == Len(P.Scratch) - 1

\* a ResetToHere that leaves the State as it is
ResetToHere_KeepState(P) ==
    [P EXCEPT !.From = ResetFrom(P),
              !.LastXref = -1, !.Idx = -1, !.Offset = -1, !.Entries = -1]

\* a ResetToHere without the `if p.State != eof`
ResetToHere_Always(P) ==
    [P EXCEPT !.State = outside,
              !.From = ResetFrom(P),
              !.LastXref = -1, !.Idx = -1, !.Offset = -1, !.Entries = -1]

ResetToHere(P) ==
    [P EXCEPT !.State = IF P.State # eof THEN outside ELSE P.State,
              !.From = ResetFrom(P),
              !.LastXref = -1, !.Idx = -1, !.Offset = -1, !.Entries = -1]

SeemsLegit(P) ==
    ~(P.LastXref < 0 \/ P.Idx < 0 \/ P.Offset < 0 \/ P.Entries < 0)

\* CheckToken(t, accept) once NextItem has returned item: <<P, ok>>
CheckToken(P, item, t, acc) ==
    LET Q == IF acc THEN WriteItem(P, item) ELSE P
        R == IF item.Typ = ItemEOF THEN [Q EXCEPT !.State = eof] ELSE Q
    IN <<R, item.Typ = t>>

\* FixXrefs returns p.Scratch.Bytes() when MaybeFindXref returned false
ReturnScratch(P) ==
    IF P.State # eof THEN At(P, PanicNoXref) ELSE At(P, "done")

\* the top of mainLoop: MaybeFindXref up to its first NextItem
MainLoop(P) ==
    IF P.State = eof THEN ReturnScratch(P)
    ELSE IF P.State # outside THEN At(P, PanicInXref)
    ELSE At(P, "MaybeFindXref")

\* a recovery: ResetToHere, then `continue mainLoop`
Recover(P, why) ==
    MainLoop(ResetToHere(Event(P, [ev |-> "recover", why |-> why])))

\* MaybeFindHeader returned false: the for loop ends, line 368 resets
HeaderFalse(P) == MainLoop(ResetToHere(P))

\* MaybeFindHeader up to its NextItem
MaybeFindHeaderEntry(P) ==
    IF P.State # inside THEN HeaderFalse(ResetToHere(P))
    ELSE At(P, "MaybeFindHeader")

\* the head of entryLoop with the counter at P.i
EntryLoop(P) ==
    IF P.i < P.Entries
    THEN At([P EXCEPT !.bailout = <<>>, !.row = Row0], "FindRow")
    ELSE MaybeFindHeaderEntry(P)

\* MaybeFindHeader has its four tokens: Idx is set and true returned
HeaderTrue(P) ==
    LET Q == [P EXCEPT !.Idx = P.Offset]
    IN IF ~SeemsLegit(Q) THEN At(Q, PanicHeader)
       ELSE IF ~SeemsLegit(Q) THEN At(Q, PanicLegit)
       ELSE EntryLoop([Q EXCEPT !.i = 0])

\* `continue entryLoop`
NextRow(P) == EntryLoop([P EXCEPT !.i = @ + 1])

RowOffset_NoFrom(P, found) ==
    IF found < 0 THEN P.row.Offset ELSE found

\* the offset FixXrefs writes for an active row
RowOffset(P, found) ==
    IF found < 0 THEN P.row.Offset ELSE found + P.From

\* the object number FixXrefs looks for at row P.i
RowObject(P) == P.Idx + P.i

\* FindRow returned a row: FixXrefs writes it, up to the CheckToken after
EmitRow(P) ==
    IF P.row.Active
    THEN IF ~(0 <= P.From /\ P.From <= P.LastXref /\ P.LastXref <= Len(P.Scratch))
         THEN At(P, PanicSlice)
         ELSE LET found == locateObj(SubSeq(P.Scratch, P.From + 1, P.LastXref),
                                     RowObject(P))
                  off == RowOffset(P, found)
              IN At(WriteString(
                       Event(P, [ev |-> "row", at |-> Len(P.Scratch),
                                 first |-> P.Offset, j |-> P.i, active |-> TRUE,
                                 located |-> found >= 0, text |-> P.bailout,
                                 from |-> P.From, upto |-> P.LastXref,
                                 found |-> found]),
                       FormatRow(off, P.row.Generation, "n")), "RowEOL")
    ELSE At(WriteString(
               Event(P, [ev |-> "row", at |-> Len(P.Scratch),
                         first |-> P.Offset, j |-> P.i, active |-> FALSE,
                         located |-> FALSE, text |-> P.bailout,
                         from |-> P.From, upto |-> P.LastXref, found |-> -1]),
               FormatRow(P.row.Offset, P.row.Generation, "f")), "RowEOL")

\* FindRow returns an error, having flushed (or not) its bailout
RowError(P, flush) ==
    LET Q == IF flush THEN WriteString(P, P.bailout) ELSE P
    IN Recover(Event(Q, [ev |-> "rowerr", base |-> Len(P.Scratch),
                         pulled |-> P.bailout, len |-> Len(Q.Scratch)]),
               "row")

\* a ResetToHere inside MaybeFindHeader followed by `return false`
HeaderFail(P, why) ==
    HeaderFalse(ResetToHere(Event(P, [ev |-> "recover", why |-> why])))

XrefIndex_InputPos(P, item) == item.Pos

\* the value MaybeFindXref gives p.LastXref, the xref token just written
XrefIndex(P, item) == Len(P.Scratch) - Len(item.Val)

\* MaybeFindXref's loop, one NextItem
MaybeFindXrefRes(P, item) ==
    IF item.Typ = ItemEOF THEN ReturnScratch([P EXCEPT !.State = eof])
    ELSE LET Q == WriteItem(P, item)
         IN IF item.Typ = ItemXref
            THEN At(Event([Q EXCEPT !.State = inside,
                                    !.LastXref = XrefIndex(Q, item)],
                          [ev |-> "found", at |-> Len(P.Scratch),
                           pos |-> item.Pos]),
                    "XrefEOL")
            ELSE At(Q, "MaybeFindXref")

\* FixXrefs: the CheckToken(ItemEOL, true) after MaybeFindXref
XrefEOLRes(P, item) ==
    LET c == CheckToken(P, item, ItemEOL, TRUE)
    IN IF ~c[2] THEN Recover(c[1], "xref") ELSE MaybeFindHeaderEntry(c[1])

\* MaybeFindHeader: the switch on its first token
MaybeFindHeaderRes(P, item) ==
    LET Q == WriteItem(P, item)
        a == Atoi(item.Val)
    IN CASE item.Typ = ItemTrailer -> At(Q, "Trailer")
         [] item.Typ = ItemNumber ->
              IF ~a[1] THEN HeaderFail([Q EXCEPT !.Offset = a[2]], "header")
              ELSE At([Q EXCEPT !.Offset = a[2]], "HeaderSpace")
         [] item.Typ = ItemEOF -> HeaderFalse([Q EXCEPT !.State = eof])
         [] OTHER -> HeaderFail(Q, "header")

\* MaybeFindHeader, case ItemTrailer: the loop up to startxref
TrailerRes(P, item) ==
    LET c == CheckToken(P, item, ItemEOF, TRUE)
    IN IF c[2] THEN HeaderFalse([c[1] EXCEPT !.State = eof])
       ELSE IF item.Typ = ItemStartXref THEN At(c[1], "StartXrefEOL")
       ELSE At(c[1], "Trailer")

StartXrefEOLRes(P, item) ==
    LET c == CheckToken(P, item, ItemEOL, TRUE)
    IN IF ~c[2] THEN HeaderFail(c[1], "startxref")
       ELSE At(c[1], "StartXrefNumber")

StartXrefText_From(P) == FormatInt(P.From)

\* the text MaybeFindHeader writes in place of the startxref number
StartXrefText(P) == FormatInt(P.LastXref)

StartXrefNumberRes(P, item) ==
    LET c == CheckToken(P, item, ItemNumber, FALSE)
    IN IF ~c[2] THEN HeaderFail(WriteItem(c[1], item), "startxref")
       ELSE HeaderFalse(ResetToHere(
                WriteString(
                    Event(c[1], [ev |-> "fix", at |-> Len(c[1].Scratch),
                                 xref |-> c[1].LastXref, old |-> item.Val]),
                    StartXrefText(c[1]))))

HeaderSpaceRes(P, item) ==
    LET c == CheckToken(P, item, ItemSpace, TRUE)
    IN IF ~c[2] THEN HeaderFail(c[1], "header")
       ELSE At(c[1], "HeaderEntries")

HeaderEntriesRes(P, item) ==
    LET c == CheckToken(P, item, ItemNumber, TRUE)
        a == Atoi(item.Val)
    IN IF ~c[2] THEN HeaderFail(c[1], "header")
       ELSE IF ~a[1] THEN HeaderFail([c[1] EXCEPT !.Entries = a[2]], "header")
       ELSE At([c[1] EXCEPT !.Entries = a[2]], "HeaderEOL")

HeaderEOLRes(P, item) ==
    LET c == CheckToken(P, item, ItemEOL, TRUE)
    IN IF ~c[2] THEN HeaderFail(c[1], "header")
       ELSE HeaderTrue(c[1])

\* FindRow: the 10 digit offset
FindRowRes(P, item) ==
    LET c == CheckToken(P, item, ItemNumber, FALSE)
        Q == [c[1] EXCEPT !.bailout = @ \o item.Val]
        a == Atoi(item.Val)
    IN IF ~c[2] \/ Len(item.Val) # 10 THEN RowError(Q, TRUE)
       ELSE IF ~a[1] THEN RowError(Q, FALSE)
       ELSE At([Q EXCEPT !.row.Offset = a[2]], "FindRowSpace1")

\* a FindRow whose first CheckToken(ItemSpace) accepts
FindRowSpace1Res_Accept(P, item) ==
    LET c == CheckToken(P, item, ItemSpace, TRUE)
        Q == [c[1] EXCEPT !.bailout = @ \o item.Val]
    IN IF ~c[2] \/ Len(item.Val) # 1 THEN RowError(Q, TRUE)
       ELSE At(Q, "FindRowGeneration")

\* FindRow: the space after the offset
FindRowSpace1Res(P, item) ==
    LET c == CheckToken(P, item, ItemSpace, FALSE)
        Q == [c[1] EXCEPT !.bailout = @ \o item.Val]
    IN IF ~c[2] \/ Len(item.Val) # 1 THEN RowError(Q, TRUE)
       ELSE At(Q, "FindRowGeneration")

\* FindRow: the 5 digit generation
FindRowGenerationRes(P, item) ==
    LET c == CheckToken(P, item, ItemNumber, FALSE)
        Q == [c[1] EXCEPT !.bailout = @ \o item.Val]
        a == Atoi(item.Val)
    IN IF ~c[2] \/ Len(item.Val) # 5 THEN RowError(Q, TRUE)
       ELSE IF ~a[1] THEN RowError(Q, FALSE)
       ELSE At([Q EXCEPT !.row.Generation = a[2]], "FindRowSpace2")

FindRowSpace2Res(P, item) ==
    LET c == CheckToken(P, item, ItemSpace, FALSE)
        Q == [c[1] EXCEPT !.bailout = @ \o item.Val]
    IN IF ~c[2] \/ Len(item.Val) # 1 THEN RowError(Q, TRUE)
       ELSE At(Q, "FindRowFlag")

\* FindRow: the n or f, and FixXrefs' write of the row
FindRowFlagRes(P, item) ==
    LET c == CheckToken(P, item, ItemWord, FALSE)
        Q == [c[1] EXCEPT !.bailout = @ \o item.Val]
    IN IF ~c[2] \/ Len(item.Val) # 1 \/ ~(item.Val = <<"n">> \/ item.Val = <<"f">>)
       THEN RowError(Q, TRUE)
       ELSE EmitRow([Q EXCEPT !.row.Active = (item.Val = <<"n">>)])

\* `ok && len(i.Val) == 2` after CheckToken(ItemEOL, true)
IsCRLF(item) == item.Typ = ItemEOL /\ Len(item.Val) = 2
\* `i.Typ == pdflex.ItemSpace && len(i.Val) == 1`
IsOneSpace(item) == item.Typ = ItemSpace /\ Len(item.Val) = 1
\* `ok && len(j.Val) == 1` after CheckToken(ItemEOL, true)
IsOneEOL(item) == item.Typ = ItemEOL /\ Len(item.Val) = 1

\* FixXrefs: the line terminator of a row, first token
RowEOLRes(P, item) ==
    LET c == CheckToken(P, item, ItemEOL, TRUE)
    IN IF IsCRLF(item) THEN NextRow(c[1])
       ELSE IF IsOneSpace(item) THEN At(c[1], "RowEOL2")
       ELSE Recover(c[1], "terminator")

\* FixXrefs: the line terminator of a row, the token after a space
RowEOL2Res(P, item) ==
    LET c == CheckToken(P, item, ItemEOL, TRUE)
    IN IF IsOneEOL(item) THEN NextRow(c[1])
       ELSE Recover(c[1], "terminator")

\* the consumer, having received, runs on to its next NextItem
Step(P) ==
    /\ State' = P.State
    /\ From' = P.From
    /\ LastXref' = P.LastXref
    /\ Idx' = P.Idx
    /\ Offset' = P.Offset
    /\ Entries' = P.Entries
    /\ Scratch' = P.Scratch
    /\ i' = P.i
    /\ bailout' = P.bailout
    /\ row' = P.row
    /\ pc' = P.pc
    /\ hist' = P.hist
    /\ doc' = doc
    /\ UNCHANGED shvars

MaybeFindXref ==
    /\ pc = "MaybeFindXref" /\ items # <<>>
    /\ \E item \in {Head(items)} :
          NextItem(item) /\ Step(MaybeFindXrefRes(Cur, item))

XrefEOL ==
    /\ pc = "XrefEOL" /\ items # <<>>
    /\ \E item \in {Head(items)} :
          NextItem(item) /\ Step(XrefEOLRes(Cur, item))

MaybeFindHeader ==
    /\ pc = "MaybeFindHeader" /\ items # <<>>
    /\ \E item \in {Head(items)} :
          NextItem(item) /\ Step(MaybeFindHeaderRes(Cur, item))

Trailer ==
    /\ pc = "Trailer" /\ items # <<>>
    /\ \E item \in {Head(items)} :
          NextItem(item) /\ Step(TrailerRes(Cur, item))

StartXrefEOL ==
    /\ pc = "StartXrefEOL" /\ items # <<>>
    /\ \E item \in {Head(items)} :
          NextItem(item) /\ Step(StartXrefEOLRes(Cur, item))

StartXrefNumber ==
    /\ pc = "StartXrefNumber" /\ items # <<>>
    /\ \E item \in {Head(items)} :
          NextItem(item) /\ Step(StartXrefNumberRes(Cur, item))

HeaderSpace ==
    /\ pc = "HeaderSpace" /\ items # <<>>
    /\ \E item \in {Head(items)} :
          NextItem(item) /\ Step(HeaderSpaceRes(Cur, item))

HeaderEntries ==
    /\ pc = "HeaderEntries" /\ items # <<>>
    /\ \E item \in {Head(items)} :
          NextItem(item) /\ Step(HeaderEntriesRes(Cur, item))

HeaderEOL ==
    /\ pc = "HeaderEOL" /\ items # <<>>
    /\ \E item \in {Head(items)} :
          NextItem(item) /\ Step(HeaderEOLRes(Cur, item))

FindRow ==
    /\ pc = "FindRow" /\ items # <<>>
    /\ \E item \in {Head(items)} :
          NextItem(item) /\ Step(FindRowRes(Cur, item))

FindRowSpace1 ==
    /\ pc = "FindRowSpace1" /\ items # <<>>
    /\ \E item \in {Head(items)} :
          NextItem(item) /\ Step(FindRowSpace1Res(Cur, item))

FindRowGeneration ==
    /\ pc = "FindRowGeneration" /\ items # <<>>
    /\ \E item \in {Head(items)} :
          NextItem(item) /\ Step(FindRowGenerationRes(Cur, item))

FindRowSpace2 ==
    /\ pc = "FindRowSpace2" /\ items # <<>>
    /\ \E item \in {Head(items)} :
          NextItem(item) /\ Step(FindRowSpace2Res(Cur, item))

FindRowFlag ==
    /\ pc = "FindRowFlag" /\ items # <<>>
    /\ \E item \in {Head(items)} :
          NextItem(item) /\ Step(FindRowFlagRes(Cur, item))

RowEOL ==
    /\ pc = "RowEOL" /\ items # <<>>
    /\ \E item \in {Head(items)} :
          NextItem(item) /\ Step(RowEOLRes(Cur, item))

RowEOL2 ==
    /\ pc = "RowEOL2" /\ items # <<>>
    /\ \E item \in {Head(items)} :
          NextItem(item) /\ Step(RowEOL2Res(Cur, item))

---------------------------------------------------------------------------
(* Inputs of the lexer alone: every concatenation of at most MaxFrags      *)
(* fragments                                                               *)

MaxFrags == 3

LexFrags ==
    {<<LF>>, <<CR>>, <<SP>>, <<"/">>, <<"1">>, <<"+">>, <<".">>, <<"a">>,
     <<"(">>, <<")">>, <<"\\">>, <<"<">>, <<">">>, <<"[">>, <<"]">>, <<"%">>,
     <<"\\", "\\">>, leftDict, rightDict, leftStream, rightStream,
     leftStream \o <<LF>>}

RECURSIVE Flatten(_)
Flatten(ss) == IF ss = <<>> THEN <<>> ELSE Head(ss) \o Flatten(Tail(ss))

LexInputs ==
    {Flatten(ss) : ss \in UNION {[1 .. n -> LexFrags] : n \in 0 .. MaxFrags}}

\* NewLexer(name, input), and a zero Parser / an empty bytes.Buffer
InitLexer(in) ==
    /\ input = in
    /\ pos = 0
    /\ start = 0
    /\ state = "lexDefault"
    /\ arrayDepth = 0
    /\ dictDepth = 0
    /\ items = <<>>
    /\ lastPos = 0
    /\ toks = <<>>

InitParser ==
    /\ State = outside
    /\ From = 0
    /\ LastXref = 0
    /\ Idx = 0
    /\ Offset = 0
    /\ Entries = 0
    /\ Scratch = <<>>
    /\ i = 0
    /\ bailout = <<>>
    /\ row = Row0
    /\ zipped = FALSE
    /\ asc85 = FALSE
    /\ hist = <<>>

InitLex ==
    /\ \E in \in LexInputs : InitLexer(in)
    /\ InitParser
    /\ pc = "TestLoop"
    /\ doc = [kind |-> "lex"]

---------------------------------------------------------------------------
(* Inputs of FixXrefs: files of one to MaxSections xref sections, each     *)
(* after the objects it lists, with one section varied, or all of them.    *)
(* doc = [n: sections, ne: rows of a subsection, stale: whether the        *)
(* offsets written in the file are out of date, at: the varied section     *)
(* (0: every section), v: the variation].                                  *)

MaxSections == 2
MaxEntries == 2

kwEOFMark == <<"%", "%", "E", "O", "F">>
StaleOffset == 12345

Cuts == {"cutXref", "cutHdr", "cutRow", "cutRows", "cutTrailer", "cutSx",
         "cutSxEOL", "cutSxNum"}
Variants ==
    {"none", "xrefSP", "hdrWord", "hdrReal", "hdrNeg", "hdrEntriesReal",
     "hdrEntriesNeg", "hdrNoSpace", "hdrZero", "hdrBig", "twoSubs",
     "rowShort", "rowOffReal", "rowRealLF", "rowOffPlus", "rowOffWord", "rowGenWord",
     "rowGenReal",
     "rowSP2", "rowFlagX", "rowFree", "rowPlusFree",
     "termTabLF", "termTab2", "termLF", "termCR", "termSPCRLF", "termCRLF",
     "termSPCR", "termSPLF",
     "noTrailer", "trailerXref", "trailerErr",
     "sxSP", "sxWord", "sxNone", "sxZeros",
     "noObj", "dupObj", "bodyErr", "bodyGt"} \cup Cuts

\* the pieces of a section, in order, and the last one a cut keeps
CutAfter(v) ==
    CASE v = "cutXref" -> 2 [] v = "cutHdr" -> 4 [] v = "cutRow" -> 5
      [] v = "cutRows" -> 5 [] v = "cutTrailer" -> 6 [] v = "cutSx" -> 7
      [] v = "cutSxEOL" -> 8 [] v = "cutSxNum" -> 9 [] OTHER -> 10
Piece(v, k, text) == IF k <= CutAfter(v) THEN text ELSE <<>>

\* the line end section s uses, and its row terminator
SecEOL(s) == IF s % 2 = 1 THEN <<LF>> ELSE <<CR>>
SecTerm(s) == CASE s % 3 = 1 -> <<SP, LF>> [] s % 3 = 2 -> <<CR, LF>> [] OTHER -> <<SP, CR>>

ObjContent(s, K) ==
    IF K > 1 THEN <<SP>> \o kwEndObj
    ELSE IF s % 2 = 1
    THEN <<SP, "<", "<", "/", "K", "[", "(", "s", ")", "<", "0", ">", "]", ">", ">",
           SP>> \o kwEndObj
    ELSE <<LF>> \o leftStream \o <<LF, "a", SP>> \o rightStream \o <<SP>> \o kwEndObj

ObjText(s, K) == SecEOL(s) \o FormatInt(K) \o objSuffix \o ObjContent(s, K)

RECURSIVE ObjsText(_, _, _)
ObjsText(s, K, ne) ==
    IF K > ne THEN <<>> ELSE ObjText(s, K) \o ObjsText(s, K + 1, ne)

BodyText(s, v, ne) ==
    (CASE v = "noObj" -> SecEOL(s) \o <<"%", "x">>
       [] v = "bodyErr" -> ObjsText(s, 1, ne) \o <<")">>
       [] v = "bodyGt" -> ObjsText(s, 1, ne) \o <<">">>
       [] v = "dupObj" -> ObjsText(s, 1, ne)
                          \o <<SP, "(", LF, "1">> \o objSuffix \o <<")">>
       [] OTHER -> ObjsText(s, 1, ne))
    \o SecEOL(s)

\* where object 1 + j of section s stands when the section's body starts at L
ObjAt(L, s, j) == L + Len(ObjsText(s, 1, j)) + 1

RowText(L, s, v, j, stale) ==
    LET w == IF j = 0 THEN v ELSE "none"
        off == IF stale \/ v = "noObj" THEN StaleOffset ELSE ObjAt(L, s, j)
        offText == CASE w = "rowShort" -> FormatPrec(off, 9)
                     [] w \in {"rowOffReal", "rowRealLF"} -> FormatPrec(off, 8) \o <<".", "5">>
                     [] w \in {"rowOffPlus", "rowPlusFree"} -> <<"+">> \o FormatPrec(off, 9)
                     [] w = "rowOffWord" -> <<"Q", "Q", "Q", "Q", "Q", "Q", "Q", "Q", "Q", "Q">>
                     [] OTHER -> FormatPrec(off, 10)
        sp == IF w = "rowSP2" THEN <<SP, SP>> ELSE <<SP>>
        gen == CASE w = "rowGenWord" -> <<"Q", "Q", "Q", "Q", "Q">>
                 [] w = "rowGenReal" -> <<"0", "0", "0", ".", "0">>
                 [] OTHER -> <<"0", "0", "0", "0", "0">>
        flag == CASE w = "rowFlagX" -> <<"x">>
                  [] w \in {"rowFree", "rowPlusFree"} -> <<"f">>
                  [] OTHER -> <<"n">>
        term == CASE w = "termTabLF" -> <<TAB, LF>>
                  [] w = "termTab2" -> <<TAB, TAB, LF>>
                  [] w = "termLF" -> <<LF>>
                  [] w = "termCR" -> <<CR>>
                  [] w = "termSPCRLF" -> <<SP, CR, LF>>
                  [] w = "termCRLF" -> <<CR, LF>>
                  [] w = "termSPCR" -> <<SP, CR>>
                  [] w = "termSPLF" -> <<SP, LF>>
                  [] w = "cutRow" -> <<>>
                  [] OTHER -> SecTerm(s)
    IN IF w = "rowRealLF" THEN offText \o <<LF>>
       ELSE offText \o sp \o gen \o <<SP>> \o flag \o term

RECURSIVE RowsText(_, _, _, _, _, _)
RowsText(L, s, v, j, ne, stale) ==
    IF j >= ne \/ (v = "cutRow" /\ j > 0) THEN <<>>
    ELSE RowText(L, s, v, j, stale) \o RowsText(L, s, v, j + 1, ne, stale)

HeaderText(s, v, ne) ==
    CASE v = "hdrWord" -> <<"A", SP, "B">> \o SecEOL(s)
      [] v = "hdrReal" -> <<"2", ".", "2", SP>> \o FormatInt(ne) \o SecEOL(s)
      [] v = "hdrNeg" -> <<"-", "1", SP>> \o FormatInt(ne) \o SecEOL(s)
      [] v = "hdrEntriesReal" -> <<"1", SP, "6", ".", "0">> \o SecEOL(s)
      [] v = "hdrEntriesNeg" -> <<"1", SP, "-", "1">> \o SecEOL(s)
      [] v = "hdrNoSpace" -> <<"1">> \o SecEOL(s)
      [] v = "hdrZero" -> <<"1", SP, "0">> \o SecEOL(s)
      [] v = "hdrBig" -> <<"1", SP>> \o FormatInt(ne + 1) \o SecEOL(s)
      [] OTHER -> <<"1", SP>> \o FormatInt(ne) \o SecEOL(s)

TrailerDict == <<"<", "<", "/", "S", SP, "1", ">", ">">>

TrailerText(s, v) ==
    CASE v = "noTrailer" -> <<>>
      [] v = "trailerXref" -> kwTrailer \o SecEOL(s) \o TrailerDict \o <<SP>> \o kwXref \o SecEOL(s)
      [] v = "trailerErr" -> kwTrailer \o SecEOL(s) \o TrailerDict \o <<")">> \o SecEOL(s)
      [] OTHER -> kwTrailer \o SecEOL(s) \o TrailerDict \o SecEOL(s)

\* the section that follows a prefix of L bytes
SecText(L, s, v, ne, stale) ==
    LET body == BodyText(s, v, ne)
        xr == L + Len(body)
        sxnum == IF stale THEN FormatInt(StaleOffset) ELSE FormatInt(xr)
    IN body
       \o Piece(v, 2, kwXref)
       \o Piece(v, 3, IF v = "xrefSP" THEN <<SP>> ELSE SecEOL(s))
       \o Piece(v, 4, HeaderText(s, v, ne))
       \o Piece(v, 5, RowsText(L, s, v, 0, ne, stale)
                      \o (IF v = "twoSubs"
                          THEN <<"1", SP, "1">> \o SecEOL(s)
                               \o RowText(L, s, "none", 0, stale)
                          ELSE <<>>))
       \o Piece(v, 6, TrailerText(s, v))
       \o Piece(v, 7, IF v = "sxNone" THEN <<>> ELSE kwStartXref)
       \o Piece(v, 8, CASE v = "sxSP" -> <<SP>> [] v = "sxNone" -> <<>> [] OTHER -> SecEOL(s))
       \o Piece(v, 9, CASE v = "sxWord" -> <<"A">>
                        [] v = "sxNone" -> <<>>
                        [] v = "sxZeros" -> <<"0", "0">> \o sxnum
                        [] OTHER -> sxnum)
       \o Piece(v, 10, SecEOL(s) \o kwEOFMark \o SecEOL(s))

RECURSIVE DocText(_, _, _)
DocText(d, s, acc) ==
    IF s > d.n THEN acc
    ELSE DocText(d, s + 1,
                 acc \o SecText(Len(acc), s,
                                IF s = d.at \/ d.at = 0 THEN d.v ELSE "none",
                                d.ne, d.stale))

Docs ==
    {[kind |-> "pdf", n |-> n, ne |-> ne, stale |-> st, at |-> at, v |-> v] :
        n \in 1 .. MaxSections, ne \in 1 .. MaxEntries, st \in BOOLEAN,
        at \in 0 .. MaxSections, v \in Variants}

\* fix(in): p := Parser{Lexer: NewLexer("", string(in))}; p.FixXrefs()
Init ==
    /\ \E d \in Docs :
          /\ d.at <= d.n
          /\ d.at = 0 => d.n > 1
          /\ doc = d
          /\ InitLexer(DocText(d, 1, <<>>))
    /\ InitParser
    /\ pc = "MaybeFindXref"

Next ==
    \/ lexDefault
    \/ lexStream
    \/ lexLeftDict
    \/ lexRightDict
    \/ lexComment
    \/ lexName
    \/ lexStringObj
    \/ lexHexObj
    \/ lexSpace
    \/ lexWord
    \/ lexNumber
    \/ MaybeFindXref
    \/ XrefEOL
    \/ MaybeFindHeader
    \/ Trailer
    \/ StartXrefEOL
    \/ StartXrefNumber
    \/ HeaderSpace
    \/ HeaderEntries
    \/ HeaderEOL
    \/ FindRow
    \/ FindRowSpace1
    \/ FindRowGeneration
    \/ FindRowSpace2
    \/ FindRowFlag
    \/ RowEOL
    \/ RowEOL2

Spec == Init /\ [][Next]_vars

NextLex ==
    \/ lexDefault
    \/ lexStream
    \/ lexLeftDict
    \/ lexRightDict
    \/ lexComment
    \/ lexName
    \/ lexStringObj
    \/ lexHexObj
    \/ lexSpace
    \/ lexWord
    \/ lexNumber
    \/ TestLoop

SpecLex == InitLex /\ [][NextLex]_vars

\* a caller that returns between two NextItem calls with the terminal item
\* not yet received, as TestXrefClean does: nothing receives from l.items
\* any more, and the Lexer has no other channel and no method to end run()
Stop ==
    /\ pc = "TestLoop"
    /\ \A k \in 1 .. Len(toks) : toks[k].Typ \notin {ItemEOF, ItemError}
    /\ pc' = "stopped"
    /\ UNCHANGED <<lexvars, items, lastPos, toks, State, From, LastXref, Idx,
                   Offset, Entries, Scratch, i, bailout, row, shvars, hist, doc>>

NextCancel ==
    \/ NextLex
    \/ Stop

SpecCancel == InitLex /\ [][NextCancel]_vars

---------------------------------------------------------------------------
(* pdfshrink's shrink(in, max), without -strict.  The codecs are not       *)
(* modelled byte for byte: what a decoder returns for a body is any short  *)
(* payload (the empty one on an error), and an encoder's output is its     *)
(* input behind a marker byte.                                             *)

MaxMax == 2

FlateDecode == <<"/", "F", "l", "a", "t", "e", "D", "e", "c", "o", "d", "e">>
ASCII85Decode ==
    <<"/", "A", "S", "C", "I", "I", "8", "5", "D", "e", "c", "o", "d", "e">>

Payloads == UNION {[1 .. n -> {"x"}] : n \in 0 .. MaxMax + 1}
un85(s) == Payloads
inflate(s) == Payloads
deflate(s) == <<"z">> \o s
re85(s) == <<"8">> \o s

\* the payload shrink measures, d85 and dz being what un85 and inflate gave
ShrinkPayload(val, d85, dz) ==
    LET s1 == IF asc85 THEN d85 ELSE val
    IN IF zipped /\ Len(dz) > 0 THEN dz ELSE s1

\* `len(s) > max`
ShrinkTooLong(payload, max) == Len(payload) > max

\* what shrink writes for a StreamBody with that payload
ShrinkBody(val, payload, max) ==
    LET cut == SubSeq(payload, 1, max)
        z == IF zipped THEN deflate(cut) ELSE cut
    IN IF ShrinkTooLong(payload, max)
       THEN IF asc85 THEN re85(z) ELSE z
       ELSE val

\* one turn of shrink's loop, from the NextItem in its head
Shrink ==
    /\ pc = "shrink" /\ items # <<>>
    /\ \E item \in {Head(items)} :
          /\ NextItem(item)
          /\ IF item.Typ = ItemEOF
             THEN /\ pc' = "shrunk"
                  /\ UNCHANGED <<Scratch, zipped, asc85, hist>>
             ELSE IF item.Typ = ItemStreamBody
             THEN \E d85 \in un85(item.Val), dz \in inflate(item.Val) :
                     LET payload == ShrinkPayload(item.Val, d85, dz)
                         out == ShrinkBody(item.Val, payload, doc.max)
                     IN /\ Scratch' = Scratch \o out
                        /\ hist' = Append(hist, [ev |-> "body", at |-> Len(toks) + 1,
                                                 payload |-> payload, out |-> out])
                        /\ zipped' = FALSE
                        /\ asc85' = FALSE
                        /\ pc' = "shrink"
             ELSE /\ zipped' = (zipped \/ (item.Typ = ItemName /\ item.Val = FlateDecode))
                  /\ asc85' = (asc85 \/ (item.Typ = ItemName /\ item.Val = ASCII85Decode))
                  /\ Scratch' = Scratch \o item.Val
                  /\ hist' = hist
                  /\ pc' = IF item.Typ = ItemError THEN "shrunk" ELSE "shrink"
    /\ UNCHANGED <<State, From, LastXref, Idx, Offset, Entries, i, bailout, row, doc>>

StreamOf(body) == leftStream \o <<LF>> \o body \o <<LF>> \o rightStream

ShrinkFrags ==
    {FlateDecode \o <<SP>>, ASCII85Decode \o <<SP>>,
     StreamOf(<<"x", "x">>), StreamOf(<<"x", "x", "x">>),
     leftDict, rightDict, <<">">>, <<"%">>, <<"(", ")">>, <<"<", "1", ">">>,
     <<"1">>, <<"a">>, <<LF>>}

ShrinkInputs ==
    {Flatten(ss) : ss \in UNION {[1 .. n -> ShrinkFrags] : n \in 0 .. MaxFrags}}

InitShrink ==
    /\ \E in \in ShrinkInputs : InitLexer(in)
    /\ InitParser
    /\ pc = "shrink"
    /\ \E max \in 1 .. MaxMax : doc = [kind |-> "shrink", max |-> max]

NextShrink ==
    \/ run
    \/ Shrink

SpecShrink == InitShrink /\ [][NextShrink]_vars

---------------------------------------------------------------------------
(* Reading the output: the text at a byte offset, counted from 0.          *)

HasAt(s, p, pat) ==
    /\ p >= 0
    /\ p + Len(pat) <= Len(s)
    /\ SubSeq(s, p + 1, p + Len(pat)) = pat

AllDigits(s) == \A k \in 1 .. Len(s) : s[k] \in DigitChars

\* the longest run of digits of s that starts at offset p
RECURSIVE DigitRun(_, _)
DigitRun(s, p) ==
    IF p < Len(s) /\ s[p + 1] \in DigitChars
    THEN <<s[p + 1]>> \o DigitRun(s, p + 1)
    ELSE <<>>

\* the length of the end of line at offset p, 0 when there is none
EOLLen(s, p) ==
    IF HasAt(s, p, <<CR, LF>>) THEN 2
    ELSE IF p >= 0 /\ p < Len(s) /\ s[p + 1] \in EOLSet THEN 1
    ELSE 0

\* the digits after the keyword startxref at offset a and its end of line
IntAfter(s, a) ==
    IF EOLLen(s, a + Len(kwStartXref)) = 0 THEN <<>>
    ELSE DigitRun(s, a + Len(kwStartXref) + EOLLen(s, a + Len(kwStartXref)))

Max(S) == CHOOSE x \in S : \A y \in S : y <= x

Events(kind) == {k \in 1 .. Len(hist) : hist[k].ev = kind}
KwEvents(typ) == {k \in Events("kw") : hist[k].typ = typ}
Terminal(item) == item.Typ \in {ItemEOF, ItemError}

\* the NextItem call the consumer stands at can still be served
Served == items # <<>> \/ state # "nil"

---------------------------------------------------------------------------
(* The lexer's contract                                                    *)

\* C1: once the loop of TestRewrite has received the EOF item, the Val of
\* the items before it, concatenated in order, is the input byte for byte.
C1_RoundTrip == pc = "done" => Scratch = input

\* C7: once NextItem has returned an EOF or Error item, every later item it
\* returns is an EOF item, and a later call does not block: the loop that
\* calls NextItem again is served.
C7_EOFAfterTerminal ==
    \A k \in 1 .. Len(toks) :
        Terminal(toks[k]) =>
            /\ \A m \in k + 1 .. Len(toks) : toks[m].Typ = ItemEOF
            /\ pc = "TestLoop" => Served

---------------------------------------------------------------------------
(* FixXrefs                                                                *)

LocatedRows == {k \in Events("row") : hist[k].active /\ hist[k].located}
RowField(e) == SubSeq(Scratch, e.at + 1, e.at + 10)
ObjHeader(e) == FormatInt(e.first + e.j) \o objSuffix

\* C2: in the output, the 10 digit offset p of every active row whose object
\* K = first + row index was located has \n or \r at p - 1 and `K 0 obj` at p.
C2_OffsetCorrect ==
    pc = "done" =>
        \A k \in LocatedRows :
            LET p == DecValue(RowField(hist[k]))
            IN /\ AllDigits(RowField(hist[k]))
               /\ p >= 1
               /\ p <= Len(Scratch)
               /\ Scratch[p] \in {LF, CR}
               /\ HasAt(Scratch, p, ObjHeader(hist[k]))

\* a located row of a second section that was given a new offset
C2_Witness ==
    /\ pc = "done"
    /\ \E k \in LocatedRows :
          /\ RowField(hist[k]) # SubSeq(hist[k].text, 1, 10)
          /\ Cardinality({m \in Events("found") : m < k}) = 2

\* the offset in the output of the nearest xref keyword before offset a
XrefsBefore(a) == {hist[k].at : k \in {m \in KwEvents(ItemXref) : hist[m].at < a}}

\* C3 as written: in the output, the integer after every startxref keyword
\* and its EOL is the decimal offset, without leading zeros, of the nearest
\* xref keyword before it.
C3_EveryStartXref ==
    pc = "done" =>
        \A k \in KwEvents(ItemStartXref) :
            IntAfter(Scratch, hist[k].at) # <<>> =>
                /\ XrefsBefore(hist[k].at) # {}
                /\ IntAfter(Scratch, hist[k].at)
                     = FormatInt(Max(XrefsBefore(hist[k].at)))

\* the xref keyword that opened the section in which event k happened
SectionXref(k) == hist[Max({m \in Events("found") : m < k})].at

\* C3: for every startxref that MaybeFindHeader reaches after the trailer of
\* a section it is parsing, and that an EOL and a Number follow, the number
\* in the output is the decimal offset, without leading zeros, of the xref
\* keyword that opened that section, and stands right after that EOL.
C3_ParsedStartXref ==
    pc = "done" =>
        \A k \in Events("fix") :
            /\ {m \in Events("found") : m < k} # {}
            /\ DigitRun(Scratch, hist[k].at) = FormatInt(SectionXref(k))
            /\ HasAt(Scratch, SectionXref(k), kwXref)
            /\ \E m \in KwEvents(ItemStartXref) :
                  /\ IntAfter(Scratch, hist[m].at) = FormatInt(SectionXref(k))
                  /\ hist[m].at + Len(kwStartXref)
                       + EOLLen(Scratch, hist[m].at + Len(kwStartXref)) = hist[k].at

\* the startxref of a second section is rewritten to another number, after
\* the first section's was rewritten to a text of another length
C3_Witness ==
    /\ pc = "done"
    /\ Cardinality(Events("fix")) = 2
    /\ \A k \in Events("fix") : hist[k].old # FormatInt(SectionXref(k))
    /\ Len(Scratch) # Len(input)

\* a row as the input has it: 10 digits, 5 digits, and for an active row the
\* offset of `K 0 obj` after a line end
RowStands(e) ==
    /\ Len(e.text) = 18
    /\ AllDigits(SubSeq(e.text, 1, 10))
    /\ AllDigits(SubSeq(e.text, 12, 16))
    /\ e.active =>
          LET p == DecValue(SubSeq(e.text, 1, 10))
          IN /\ p >= 1
             /\ p <= Len(input)
             /\ input[p] \in {LF, CR}
             /\ HasAt(input, p, ObjHeader(e))

\* the input found healthy: every section parsed without a recovery, every
\* row carrying the offset at which its object stands, every startxref
\* number the offset of its xref keyword
HealthyInput ==
    /\ Events("recover") = {}
    /\ Events("row") # {}
    /\ \A k \in Events("row") : RowStands(hist[k])
    /\ \A k \in Events("fix") :
          hist[k].old = FormatInt(hist[Max({m \in Events("found") : m < k})].pos)

\* C4: on an input whose rows are 20 byte rows with the offsets at which
\* their objects stand and whose startxref numbers are the offsets of their
\* xref keywords, FixXrefs returns the input byte for byte.
C4_HealthyIdentity == (pc = "done" /\ HealthyInput) => Scratch = input

\* C5: FixXrefs reaches none of its panic statements.
C5_NoPanic == pc \notin Panics

\* C6: FixXrefs returns: until it has, the NextItem call it stands at is
\* served, also after the lexer has ended with an Error item.
C6_Terminates == pc = "done" \/ Served

\* C8: whenever FindRow returns an error, Scratch has grown by exactly the
\* Val of the tokens FindRow pulled in that call.
C8_NoDataLoss ==
    \A k \in Events("rowerr") :
        /\ hist[k].len = hist[k].base + Len(hist[k].pulled)
        /\ HasAt(Scratch, hist[k].base, hist[k].pulled)

\* the ways C9 lists in which an only xref section is broken
BrokenFirst ==
    {"xrefSP", "hdrWord", "hdrNoSpace", "rowOffWord", "rowGenWord",
     "termTab2", "termLF", "termCR", "termSPCRLF"}

\* C9: an input that lexes without Error and whose only xref section has no
\* EOL after xref, a first header that is not Number Space Number EOL, a
\* first row with a field that is no number, or a first row with an illegal
\* line terminator, comes out of FixXrefs byte for byte.
C9_BrokenUnmodified ==
    (pc = "done" /\ doc.n = 1 /\ doc.v \in BrokenFirst) => Scratch = input

\* the two sections of an input of two, by the events of their xref keywords
TwoSections ==
    /\ Cardinality(Events("found")) = 2
    /\ Cardinality(KwEvents(ItemXref)) = 2
Found1 == CHOOSE k \in Events("found") : \A m \in Events("found") : k <= m
Found2 == Max(Events("found"))

\* the first section was abandoned at a corrupt row
FirstAbandonedAtRow ==
    \E r \in Events("recover") :
        /\ Found1 < r
        /\ r < Found2
        /\ hist[r].why \in {"row", "terminator"}

\* the startxref keywords of the first section, and of the second
StartXrefs1 == {k \in KwEvents(ItemStartXref) : Found1 < k /\ k < Found2}
StartXrefs2 == {k \in KwEvents(ItemStartXref) : Found2 < k}

FirstUnchanged ==
    \A k \in StartXrefs1 : IntAfter(Scratch, hist[k].at) = IntAfter(input, hist[k].pos)
SecondFixed ==
    \A k \in StartXrefs2 :
        IntAfter(Scratch, hist[k].at) # <<>> =>
            IntAfter(Scratch, hist[k].at) = FormatInt(hist[Found2].at)

\* C10 as written: with two xref sections and the first abandoned at a
\* corrupt row, the integer after the first startxref is the input's and the
\* integer after the second is the output offset of the second xref keyword.
C10_PerSection ==
    (pc = "done" /\ TwoSections /\ FirstAbandonedAtRow) =>
        (FirstUnchanged /\ SecondFixed)

\* C10: the same, for a second section that is parsed without a failure up
\* to the Number after its startxref.
C10_PerSectionParsed ==
    (/\ pc = "done"
     /\ TwoSections
     /\ FirstAbandonedAtRow
     /\ \E k \in Events("fix") : Found2 < k)
    => (FirstUnchanged /\ SecondFixed)

\* both startxref numbers were out of date: the first stays, the second is
\* rewritten
C10_Witness ==
    /\ pc = "done"
    /\ TwoSections
    /\ FirstAbandonedAtRow
    /\ \E k \in Events("fix") : Found2 < k /\ hist[k].old # FormatInt(hist[Found2].at)
    /\ \E k \in StartXrefs1 :
          /\ IntAfter(input, hist[k].pos) # <<>>
          /\ IntAfter(input, hist[k].pos) # FormatInt(hist[Found1].at)
    /\ StartXrefs2 # {}

---------------------------------------------------------------------------
(* The item sequence                                                       *)

\* every item the producer has sent so far, in order
Emitted == toks \o items
Halted == state = "nil"
Count(typ, n) == Cardinality({k \in 1 .. n : Emitted[k].Typ = typ})

\* the state functions run() can be about to call
StateFns ==
    {"lexDefault", "lexStream", "lexLeftDict", "lexRightDict", "lexComment",
     "lexName", "lexStringObj", "lexHexObj", "lexSpace", "lexWord", "lexNumber"}

\* a terminal item is the last item sent and ends run(), and run() ends only
\* so
OneTerminalLast ==
    /\ \A k \in 1 .. Len(Emitted) :
          Terminal(Emitted[k]) => (k = Len(Emitted) /\ Halted)
    /\ Halted => (Emitted # <<>> /\ Terminal(Emitted[Len(Emitted)]))

\* C11: on every input the producer sends finitely many items (never more
\* than two for each byte, and one), exactly one of them terminal (EOF or
\* Error) and that one last, and then halts: until it has halted it is
\* sending or has a state function to run.
C11_FiniteSequence ==
    /\ OneTerminalLast
    /\ Len(Emitted) <= 2 * Len(input) + 1
    /\ Halted \/ items # <<>> \/ state \in StateFns

\* a run of several items that has ended
C11_Witness == Halted /\ items = <<>> /\ Len(toks) >= 4

\* the closers sent never outnumber the openers, in every prefix
Balanced ==
    \A n \in 0 .. Len(Emitted) :
        /\ Count(ItemRightArray, n) <= Count(ItemLeftArray, n)
        /\ Count(ItemRightDict, n) <= Count(ItemLeftDict, n)

ArrayDepth0 ==
    Count(ItemLeftArray, Len(Emitted)) = Count(ItemRightArray, Len(Emitted))
DictDepth0 ==
    Count(ItemLeftDict, Len(Emitted)) = Count(ItemRightDict, Len(Emitted))

\* lexDefault is about to read a `]` or a `>>` with as many closers sent as
\* openers
CloserAtDepth0 ==
    /\ state = "lexDefault"
    /\ items = <<>>
    /\ \/ Rune(pos) = "]" /\ ArrayDepth0
       \/ Rune(pos) = ">" /\ Rune(pos + 1) = ">" /\ DictDepth0

ErrorNextAndLast ==
    /\ Len(items') = 1
    /\ items'[1].Typ = ItemError
    /\ state' = "nil"

\* C12: in every prefix of the item sequence there are at most as many
\* RightArray as LeftArray items and at most as many RightDict as LeftDict
\* items; a `]` or `>>` met at depth 0 gives an Error item as the next and
\* last item.
C12_BalancedDelimiters ==
    []Balanced /\ [][CloserAtDepth0 => ErrorNextAndLast]_vars

\* an array was opened and closed, and one more `]` was refused
C12_Witness ==
    /\ Halted
    /\ Count(ItemRightArray, Len(Emitted)) = 1
    /\ Emitted[Len(Emitted)] =
          Item(ItemError, Len(input) - 1, Msg("unexexpected array terminator"))

\* no EOF item is sent after more openers than closers
NoEOFWhenOpen ==
    \A k \in 1 .. Len(Emitted) :
        Emitted[k].Typ = ItemEOF =>
            /\ Count(ItemLeftArray, k) = Count(ItemRightArray, k)
            /\ Count(ItemLeftDict, k) = Count(ItemRightDict, k)

\* lexDefault is about to read the end of the input with an array or a dict
\* still open
EndWhileOpen ==
    /\ state = "lexDefault"
    /\ items = <<>>
    /\ Rune(pos) = EOFR
    /\ ~(ArrayDepth0 /\ DictDepth0)

UnterminatedNext ==
    /\ items' = <<Item(ItemError, Len(input),
                       Msg(IF ~ArrayDepth0 THEN "unterminated array"
                           ELSE "unterminated dict"))>>
    /\ state' = "nil"

\* C13: when the input ends with more LeftArray than RightArray items, or
\* more LeftDict than RightDict items, sent, the last item is the Error
\* 'unterminated array' (looked at first) or 'unterminated dict', and no EOF
\* item is sent.
C13_UnterminatedNesting ==
    []NoEOFWhenOpen /\ [][EndWhileOpen => UnterminatedNext]_vars

\* the input ended inside a dict inside an array: the array is reported
C13_Witness ==
    /\ Halted
    /\ ~DictDepth0
    /\ Emitted[Len(Emitted)] =
          Item(ItemError, Len(input), Msg("unterminated array"))

\* C14: an item that starts, in the default state, at a `>` that no `>`
\* follows is an Error item, at every nesting depth.  (Only lexStream starts
\* an item elsewhere than in the default state: its StreamBody.)
C14_StrayGtIsError ==
    \A k \in 1 .. Len(Emitted) :
        (/\ Emitted[k].Typ # ItemStreamBody
         /\ Rune(Emitted[k].Pos) = ">"
         /\ Rune(Emitted[k].Pos + 1) # ">")
        => Emitted[k].Typ = ItemError

\* C16: every EOF item has an empty Val and the length of the input as Pos.
C16_EOFAtEnd ==
    \A k \in 1 .. Len(Emitted) :
        Emitted[k].Typ = ItemEOF =>
            /\ Emitted[k].Val = <<>>
            /\ Emitted[k].Pos = Len(input)

\* a literal string read as C15 has it: the byte after a backslash is
\* consumed whatever it is; the offset after the closing paren, -1 when the
\* input ends first
RECURSIVE StringEnd(_, _)
StringEnd(p, balance) ==
    LET r == Rune(p)
    IN CASE r = EOFR -> -1
         [] r = "\\" -> StringEnd(Fwd(Fwd(p)), balance)
         [] r = "(" -> StringEnd(Fwd(p), balance + 1)
         [] r = ")" -> IF balance = 1 THEN Fwd(p)
                       ELSE StringEnd(Fwd(p), balance - 1)
         [] OTHER -> StringEnd(Fwd(p), balance)

FromStringObj(item) ==
    \/ item.Typ = ItemString
    \/ item = Item(ItemError, item.Pos, Msg("unterminated string object"))

\* C15: what lexStringObj sends for a `(` is the String item that ends at the
\* paren closing it, when the byte after every backslash is skipped whatever
\* it is and counts for nothing; so `(\\\\)` is one String item.
C15_StringEscapes ==
    \A k \in 1 .. Len(Emitted) :
        FromStringObj(Emitted[k]) =>
            IF StringEnd(Emitted[k].Pos + 1, 1) < 0
            THEN Emitted[k].Typ = ItemError
            ELSE Emitted[k] =
                   Item(ItemString, Emitted[k].Pos,
                        Slice(Emitted[k].Pos, StringEnd(Emitted[k].Pos + 1, 1)))

\* C17: the first item starts at offset 0 and every item starts where the
\* one before it ended: a.Pos + len(a.Val) = b.Pos for consecutive a, b.
C17_Contiguous ==
    /\ Emitted # <<>> => Emitted[1].Pos = 0
    /\ \A k \in 1 .. Len(Emitted) - 1 :
           Emitted[k].Pos + Len(Emitted[k].Val) = Emitted[k + 1].Pos

C17_Witness ==
    /\ Halted /\ items = <<>> /\ Len(toks) >= 3
    /\ toks[Len(toks)].Typ = ItemError
    /\ toks[Len(toks)].Pos \in 1 .. Len(input) - 1
    /\ toks[Len(toks)].Pos =
           toks[Len(toks) - 1].Pos + Len(toks[Len(toks) - 1].Val)

\* C18: positions strictly increase: a.Pos < b.Pos for consecutive a, b.
C18_StrictlyIncreasing ==
    \A k \in 1 .. Len(Emitted) - 1 : Emitted[k].Pos < Emitted[k + 1].Pos

EmptyBody(item) == item.Typ = ItemStreamBody /\ item.Val = <<>>

\* C18, as the code has it: positions never decrease, and they increase
\* strictly except after a StreamBody item with an empty Val, which shares
\* its Pos with the item after it.
C18_IncreasingButEmptyBody ==
    \A k \in 1 .. Len(Emitted) - 1 :
        IF EmptyBody(Emitted[k])
        THEN Emitted[k].Pos = Emitted[k + 1].Pos
        ELSE Emitted[k].Pos < Emitted[k + 1].Pos

C18_Witness ==
    /\ Halted /\ items = <<>>
    /\ \E k \in 1 .. Len(toks) - 1 :
           /\ EmptyBody(toks[k])
           /\ toks[k + 1] = Item(ItemEndStream, toks[k].Pos, rightStream)
    /\ toks[Len(toks)].Typ = ItemEOF

---------------------------------------------------------------------------
(* Row terminators                                                         *)

LegalTerminators == {<<SP, CR>>, <<SP, LF>>, <<CR, LF>>}

\* the consumer step in which FixXrefs has read the whole terminator of
\* the row it wrote, and the bytes of that terminator
TerminatorRead ==
    \/ pc = "RowEOL" /\ pc' \notin {"RowEOL", "RowEOL2"}
    \/ pc = "RowEOL2" /\ pc' # "RowEOL2"
TerminatorText ==
    IF pc = "RowEOL" THEN Head(items).Val
    ELSE toks[Len(toks)].Val \o Head(items).Val
\* the step left the section through ResetToHere
RowAbandoned ==
    /\ Len(hist') = Len(hist) + 1
    /\ hist'[Len(hist')] = [ev |-> "recover", why |-> "terminator"]

\* C19: FixXrefs goes on to the next row exactly when the bytes after the
\* n/f flag are SP CR, SP LF or CR LF; any other terminator abandons the
\* section through ResetToHere.
C19_LegalTerminators ==
    [][TerminatorRead => (RowAbandoned <=> TerminatorText \notin LegalTerminators)]_vars

---------------------------------------------------------------------------
(* A consumer that stops                                                   *)

\* C20: after the consumer has stopped calling NextItem, the producer is not
\* left blocked on a send: no item it has sent waits on the channel, where
\* nothing would ever receive it, so that run() can come to its end.
C20_Cancellation == pc = "stopped" => items = <<>>

---------------------------------------------------------------------------
(* shrink                                                                  *)

LexedWithoutError == \A k \in 1 .. Len(toks) : toks[k].Typ # ItemError
BodyEvents == {k \in 1 .. Len(hist) : hist[k].ev = "body"}
BodyReplaced(k) == hist[k].out # toks[hist[k].at].Val

\* C21: a StreamBody is replaced only when its decoded payload is longer
\* than max, and when shrink has returned on an input that lexed without
\* Error and no payload was longer than max, its output is the input byte
\* for byte.
C21_ShrinkNoop ==
    /\ \A k \in BodyEvents : BodyReplaced(k) => Len(hist[k].payload) > doc.max
    /\ (/\ pc = "shrunk"
        /\ LexedWithoutError
        /\ \A k \in BodyEvents : Len(hist[k].payload) <= doc.max)
       => Scratch = input

---------------------------------------------------------------------------
(* The parser's state                                                      *)

\* C22: while FixXrefs runs, in every state with State = inside,
\* LastXref >= 0 and From <= LastXref (a state being what the parser is in
\* when it calls NextItem or returns).
C22_InsideInvariant == State = inside => (LastXref >= 0 /\ From <= LastXref)

C22_Witness ==
    /\ State = inside
    /\ From > 0
    /\ LastXref > From
    /\ Events("recover") # {}

\* what the three functions do when called on the parser as it stands
EOFKept ==
    /\ ResetToHere(Cur).State = eof
    /\ MainLoop(Cur) = At(Cur, "done")
    /\ MaybeFindHeaderEntry(Cur).State = eof
    /\ MaybeFindHeaderEntry(Cur).pc = "done"
    /\ MaybeFindHeaderEntry(Cur).Scratch = Scratch

\* C23: once State is eof it stays eof: ResetToHere, MaybeFindXref and
\* MaybeFindHeader leave it eof, the two latter return false without a
\* NextItem call (FixXrefs then returns), and no step changes State again.
C23_EOFTerminal ==
    /\ [](State = eof => (pc = "done" /\ EOFKept))
    /\ [][State = eof => State' = eof]_vars

\* FixXrefs has returned, the EOF item having come to a CheckToken inside a
\* section, with ResetToHere called after it
C23_Witness ==
    /\ State = eof
    /\ pc = "done"
    /\ LastXref = -1
    /\ From = Len(Scratch) - 1
    /\ Events("recover") # {}

NoErrorItem == \A k \in 1 .. Len(Emitted) : Emitted[k].Typ # ItemError

\* the EOF item is the last item FixXrefs receives, and it then returns
NoPullAfterEOF ==
    \A k \in 1 .. Len(toks) :
        toks[k].Typ = ItemEOF => (k = Len(toks) /\ State = eof /\ pc = "done")
\* until it has returned, the NextItem call FixXrefs stands at is served
NotLeftWaiting == pc = "done" \/ Served

\* C24: FixXrefs calls NextItem no more once it has received the EOF item
\* (it has then State = eof and returns), and on an input that lexes
\* without Error it is never left waiting for an item and it returns: it
\* ends at no panic.
C24_NoPullAfterEOF ==
    /\ NoPullAfterEOF
    /\ NoErrorItem => (NotLeftWaiting /\ pc \notin Panics)

---------------------------------------------------------------------------
(* Rows                                                                    *)

\* FixXrefs has just written a row: the event of that row
LastRow == hist[Max(Events("row"))]
RowWritten == pc = "RowEOL" /\ Events("row") # {}

\* C25: at every locateObj call of FixXrefs, 0 <= From <= LastXref <=
\* len(Scratch), so that Scratch[From:LastXref] does not panic, and the
\* offset written for a located object lies strictly between From and
\* LastXref.
C25_WindowInRange ==
    /\ pc # PanicSlice
    /\ (RowWritten /\ LastRow.active) =>
          /\ 0 <= From /\ From <= LastXref /\ LastXref <= LastRow.at
          /\ LastRow.located =>
                /\ AllDigits(RowField(LastRow))
                /\ From < DecValue(RowField(LastRow))
                /\ DecValue(RowField(LastRow)) < LastXref

\* a located row of a later section, whose window does not start at 0
C25_Witness ==
    /\ RowWritten
    /\ LastRow.active /\ LastRow.located
    /\ From > 0
    /\ RowField(LastRow) # SubSeq(LastRow.text, 1, 10)

---------------------------------------------------------------------------
(* The parser's functions                                                  *)

\* the step in which MaybeFindXref receives an item; it has returned true
\* when FixXrefs stands at the CheckToken after it, false when FixXrefs has
\* returned
XrefPull == pc = "MaybeFindXref" /\ toks' # toks

\* C26: MaybeFindXref appends the Val of every token it pulls to Scratch;
\* when it returns true, State = inside, Scratch ends in `xref` and LastXref
\* is the index of that x; when it returns false, State = eof.
C26_MaybeFindXrefPost ==
    [][XrefPull =>
          /\ Scratch' = Scratch \o Head(items).Val
          /\ pc' = "XrefEOL" =>
                /\ State' = inside
                /\ HasAt(Scratch', Len(Scratch') - 4, kwXref)
                /\ LastXref' = Len(Scratch') - 4
          /\ pc' = "done" => State' = eof]_vars

HeaderPcs == {"MaybeFindHeader", "HeaderSpace", "HeaderEntries", "HeaderEOL",
              "Trailer", "StartXrefEOL", "StartXrefNumber"}
\* the step in which MaybeFindHeader receives an item
HeaderPull == pc \in HeaderPcs /\ toks' # toks
\* that item is the EOL of a header Number, Space, Number, EOL whose numbers
\* strconv.Atoi has taken
HeaderComplete == pc = "HeaderEOL" /\ Head(items).Typ = ItemEOL
\* MaybeFindHeader has returned true and FixXrefs goes on in the section
HeaderFound ==
    /\ pc' \in {"FindRow", "MaybeFindHeader"}
    /\ State' = inside
    /\ Offset' = Atoi(toks[Len(toks) - 2].Val)[2]
    /\ Entries' = Atoi(toks[Len(toks)].Val)[2]
    /\ Idx' = Offset'
\* MaybeFindHeader has returned false: FixXrefs is back in mainLoop
HeaderNotFound == pc' \in {"MaybeFindXref", "done"}

\* C27: MaybeFindHeader, called with State = inside, returns true exactly
\* when it has pulled Number, Space, Number, EOL with both numbers integers,
\* and then Offset, Entries and Idx = Offset are those numbers; otherwise it
\* returns false with State outside or eof; and the Val of every token it
\* pulls is appended to Scratch.
C27_MaybeFindHeader ==
    [][HeaderPull =>
          /\ HeaderComplete => HeaderFound
          /\ ~HeaderComplete => (pc' \in HeaderPcs \ {"MaybeFindHeader"} \/ HeaderNotFound)
          /\ HeaderNotFound => State' \in {outside, eof}
          /\ HeaderNotFound => Scratch' = Scratch \o Head(items).Val]_vars

FindRowPcs == {"FindRow", "FindRowSpace1", "FindRowGeneration", "FindRowSpace2",
               "FindRowFlag"}
\* the step in which FindRow receives an item
FindRowPull == pc \in FindRowPcs /\ toks' # toks
\* FindRow has returned a row: FixXrefs has written it and stands at the
\* CheckToken for its terminator
RowFound == pc = "FindRowFlag" /\ pc' = "RowEOL"
FiveTokens(t) ==
    /\ Len(t) >= 5
    /\ t[Len(t) - 4].Typ = ItemNumber /\ Len(t[Len(t) - 4].Val) = 10
    /\ t[Len(t) - 3].Typ = ItemSpace /\ Len(t[Len(t) - 3].Val) = 1
    /\ t[Len(t) - 2].Typ = ItemNumber /\ Len(t[Len(t) - 2].Val) = 5
    /\ t[Len(t) - 1].Typ = ItemSpace /\ Len(t[Len(t) - 1].Val) = 1
    /\ t[Len(t)].Typ = ItemWord /\ t[Len(t)].Val \in {<<"n">>, <<"f">>}
RowVals(t) ==
    t[Len(t) - 4].Val \o t[Len(t) - 3].Val \o t[Len(t) - 2].Val
        \o t[Len(t) - 1].Val \o t[Len(t)].Val

\* C28: a FindRow that succeeds has pulled exactly five tokens, a Number of
\* 10 bytes, a Space of 1, a Number of 5, a Space of 1 and a Word n or f,
\* and not the terminator; Active is true exactly for n; and it has left
\* Scratch (to which FixXrefs then appends its row), From, LastXref, Idx,
\* Offset and Entries as they were.
C28_FindRowSuccess ==
    [][FindRowPull =>
          /\ pc' \in FindRowPcs =>
                UNCHANGED <<Scratch, From, LastXref, Idx, Offset, Entries>>
          /\ RowFound =>
                /\ UNCHANGED <<From, LastXref, Idx, Offset, Entries>>
                /\ hist'[Len(hist')].ev = "row"
                /\ hist'[Len(hist')].at = Len(Scratch)
                /\ SubSeq(Scratch', 1, Len(Scratch)) = Scratch
                /\ FiveTokens(toks')
                /\ bailout' = RowVals(toks')
                /\ row'.Active = (Head(items).Val = <<"n">>)
                /\ hist'[Len(hist')].active = row'.Active]_vars

\* FixXrefs stands after a free row that FindRow returned
C28_Witness ==
    /\ RowWritten
    /\ ~LastRow.active
    /\ FiveTokens(toks)
    /\ toks[Len(toks)].Val = <<"f">>

\* a row FindRow returned for which FixXrefs found no object to point at
Unrelocated(e) == ~e.active \/ ~e.located
\* the 18 bytes after the offset at which FixXrefs wrote the row of event e
RowBytes(e) == SubSeq(Scratch, e.at + 1, e.at + 18)

\* C29: for every parsed row that is free, or active with no object
\* located, the 18 bytes FixXrefs writes are the row's 18 input bytes.
C29_UnrelocatedUnchanged ==
    \A k \in Events("row") :
        Unrelocated(hist[k]) =>
            (Len(Scratch) >= hist[k].at + 18 /\ RowBytes(hist[k]) = hist[k].text)

---------------------------------------------------------------------------
(* locateObj                                                               *)

ActiveRows == {k \in Events("row") : hist[k].active}
\* the slice S = Scratch[From:LastXref] and the number K of the call made
\* for the row of event e
Window(e) == SubSeq(Scratch, e.from + 1, e.upto)
Wanted(e) == e.first + e.j
\* the indexes in S of the first digit of each `K 0 obj` that stands right
\* after a \n or \r
Occurrences(S, K) ==
    {p \in 1 .. Len(S) - 1 :
        S[p] \in {LF, CR} /\ HasAt(S, p, FormatInt(K) \o objSuffix)}
Min(S) == CHOOSE x \in S : \A y \in S : x <= y

\* C30: locateObj(S, K) is the index of the first digit of the earliest
\* `K 0 obj` in S that stands right after \n or \r, and negative when S has
\* none.
C30_LocateEarliest ==
    \A k \in ActiveRows :
        IF Occurrences(Window(hist[k]), Wanted(hist[k])) = {}
        THEN hist[k].found < 0
        ELSE hist[k].found = Min(Occurrences(Window(hist[k]), Wanted(hist[k])))

---------------------------------------------------------------------------
(* Streams, line ends and numbers                                          *)

Blank(item) == item.Typ \in {ItemSpace, ItemEOL}
\* the items sent after item k up to the first that is no Space or EOL are
\* all Space or EOL, and that first one, if sent already, is of type typ
ThenAfterBlanks(k, typ) ==
    \A m \in k + 1 .. Len(Emitted) :
        (\A n \in k + 1 .. m - 1 : Blank(Emitted[n])) =>
            (Blank(Emitted[m]) \/ Emitted[m].Typ = typ)

\* C31: a Stream item is followed by an Error item, or by one EOL item and
\* then a StreamBody or Error item; a StreamBody item is followed by Space
\* and EOL items only, and then by an EndStream item.
C31_StreamProtocol ==
    \A k \in 1 .. Len(Emitted) :
        /\ (Emitted[k].Typ = ItemStream /\ k < Len(Emitted)) =>
              Emitted[k + 1].Typ \in {ItemEOL, ItemError}
        /\ (Emitted[k].Typ = ItemStream /\ k + 1 < Len(Emitted)) =>
              Emitted[k + 2].Typ \in {ItemStreamBody, ItemError}
        /\ Emitted[k].Typ = ItemStreamBody => ThenAfterBlanks(k, ItemEndStream)

\* the offsets at or after p at which the text `endstream` stands
EndStreamsFrom(p) == {q \in p .. Len(input) : HasAt(input, q, rightStream)}
\* item k is the EOL that lexStream sends after a Stream item
StreamEOL(k) == k > 1 /\ Emitted[k - 1].Typ = ItemStream /\ Emitted[k].Typ = ItemEOL
\* body is what stands at offset p up to offset e, less trailing whitespace
BareUpTo(body, p, e) ==
    /\ Len(body) <= e - p
    /\ body = Slice(p, p + Len(body))
    /\ \A q \in p + Len(body) + 1 .. e : input[q] \in UnicodeSpace
    /\ body # <<>> => body[Len(body)] \notin UnicodeSpace
    /\ \A q \in 0 .. Len(body) : ~HasAt(body, q, rightStream)

\* C32: the item after the EOL that follows `stream` is Error 'unclosed
\* stream' when no `endstream` stands after that EOL, and else a StreamBody
\* whose Val is the input from there to the first `endstream` less its
\* trailing whitespace: it ends in no whitespace or EOL byte and holds no
\* `endstream`.
C32_StreamBodyContent ==
    \A k \in 1 .. Len(Emitted) - 1 :
        StreamEOL(k) =>
            LET p == Emitted[k].Pos + Len(Emitted[k].Val)
            IN IF EndStreamsFrom(p) = {}
               THEN Emitted[k + 1] = Item(ItemError, p, Msg("unclosed stream"))
               ELSE /\ Emitted[k + 1].Typ = ItemStreamBody
                    /\ Emitted[k + 1].Pos = p
                    /\ BareUpTo(Emitted[k + 1].Val, p, Min(EndStreamsFrom(p)))

\* a body sent with whitespace before `endstream` left out of it
C32_Witness ==
    /\ Halted
    /\ \E k \in 1 .. Len(Emitted) - 1 :
          /\ StreamEOL(k)
          /\ Emitted[k + 1].Typ = ItemStreamBody
          /\ EndStreamsFrom(Emitted[k + 1].Pos) # {}
          /\ Emitted[k + 1].Pos + Len(Emitted[k + 1].Val)
                < Min(EndStreamsFrom(Emitted[k + 1].Pos))

HasEOLByte(v) == \E k \in 1 .. Len(v) : v[k] \in {CR, LF}

IsNumberText(v) ==
    LET u == IF v # <<>> /\ v[1] \in {"+", "-"} THEN Tail(v) ELSE v
    IN /\ \A k \in 1 .. Len(u) : u[k] \in DigitChars \cup {"."}
       /\ Cardinality({k \in 1 .. Len(u) : u[k] = "."}) <= 1
       /\ \E k \in 1 .. Len(u) : u[k] \in DigitChars

\* C34: the Val of every Number item is an optional sign and digits with at
\* most one `.`, holds at least one digit, and is followed in the input by a
\* delimiter, whitespace or the end of input.
C34_NumberItems ==
    \A k \in 1 .. Len(Emitted) :
        Emitted[k].Typ = ItemNumber =>
            LET r == Rune(Emitted[k].Pos + Len(Emitted[k].Val))
            IN /\ IsNumberText(Emitted[k].Val)
               /\ isDelim(r) \/ r \in UnicodeSpace \/ r = EOFR

----------------------------------------------------------------------------
(* The two goroutines side by side.  l.items is unbuffered: once the       *)
(* consumer has received an item, the producer is free to go on to its     *)
(* next send while the consumer still works on what it holds.              *)

\* what the state function l.state names leaves behind
StateRes ==
    CASE state = "lexDefault" -> lexDefaultRes
      [] state = "lexStream" -> lexStreamRes
      [] state = "lexLeftDict" -> lexLeftDictRes
      [] state = "lexRightDict" -> lexRightDictRes
      [] state = "lexComment" -> lexCommentRes
      [] state = "lexName" -> lexNameRes
      [] state = "lexStringObj" -> lexStringObjRes
      [] state = "lexHexObj" -> lexHexObjRes
      [] state = "lexSpace" -> lexSpaceRes
      [] state = "lexWord" -> lexWordRes
      [] state = "lexNumber" -> lexNumberRes

\* a channel that hands over the newest item first
Send_Newest(q, out) == out \o q

\* `l.items <- item` behind what is still in the consumer's hands
Send(q, out) == q \o out

\* one turn of run()'s loop taken while the consumer is still busy with the
\* item it received last
runAhead ==
    /\ state # "nil"
    /\ Len(items) = 1
    /\ pos' = StateRes.pos
    /\ start' = StateRes.start
    /\ state' = StateRes.state
    /\ arrayDepth' = StateRes.arrayDepth
    /\ dictDepth' = StateRes.dictDepth
    /\ items' = Send(items, StateRes.out)
    /\ UNCHANGED <<input, lastPos, pc, pvars, shvars, toks, hist, doc>>

NextAhead == Next \/ runAhead

SpecAhead == Init /\ [][NextAhead]_vars

\* the fields the producer goroutine writes, and what the consumer writes
ProducerOwn == <<pos, start, state, arrayDepth, dictDepth>>
ConsumerOwn == <<lastPos, pc, pvars, toks, hist>>

----------------------------------------------------------------------------
(* FixXrefs on what FixXrefs returned: fix(fix(in)).                       *)

\* fix(out) for the out a first fix(in) returned, when in lexed without an
\* Error item: a new Lexer over out and a new Parser
Again ==
    /\ pc = "done"
    /\ doc.kind = "pdf"
    /\ NoErrorItem
    /\ input' = Scratch
    /\ pos' = 0
    /\ start' = 0
    /\ state' = "lexDefault"
    /\ arrayDepth' = 0
    /\ dictDepth' = 0
    /\ items' = <<>>
    /\ lastPos' = 0
    /\ toks' = <<>>
    /\ State' = outside
    /\ From' = 0
    /\ LastXref' = 0
    /\ Idx' = 0
    /\ Offset' = 0
    /\ Entries' = 0
    /\ Scratch' = <<>>
    /\ i' = 0
    /\ bailout' = <<>>
    /\ row' = Row0
    /\ hist' = <<>>
    /\ pc' = "MaybeFindXref"
    /\ doc' = [kind |-> "again", in |-> input, out |-> Scratch]
    /\ UNCHANGED shvars

NextTwice == Next \/ Again

SpecTwice == Init /\ [][NextTwice]_vars

\* C36: when FixXrefs has run on the bytes a first FixXrefs returned for an
\* input without an Error item, it returns those bytes unchanged.
C36_Idempotent ==
    (doc.kind = "again" /\ pc = "done") => Scratch = doc.out

----------------------------------------------------------------------------
(* ResetToHere                                                             *)

\* what a call of ResetToHere on the parser P changes and what it leaves
ResetFrame(P) ==
    LET Q == ResetToHere(P)
    IN /\ Q.From = Len(P.Scratch) - 1
       /\ Q.LastXref = -1 /\ Q.Idx = -1 /\ Q.Offset = -1 /\ Q.Entries = -1
       /\ Q.State = IF P.State = eof THEN eof ELSE outside
       /\ Q.Scratch = P.Scratch
       /\ Q.i = P.i /\ Q.bailout = P.bailout /\ Q.row = P.row
       /\ Q.pc = P.pc /\ Q.hist = P.hist
       /\ ResetToHere(Q) = Q

\* the step FixXrefs took called ResetToHere
Recovered == Len(hist') > Len(hist) /\ hist'[Len(hist')].ev = "recover"

\* C37: called on the parser as it stands in any state, ResetToHere sets
\* From to len(Scratch) - 1 and LastXref, Idx, Offset and Entries to -1, sets
\* State to outside unless it is eof, changes nothing else, and a second call
\* changes nothing; and a step of FixXrefs that calls it leaves the parser
\* so, with Scratch holding what was written before the call and the lexer
\* having done nothing but hand over the item received.
C37_ResetToHere ==
    /\ [](ResetFrame(Cur))
    /\ [][Recovered =>
            /\ From' = Len(Scratch') - 1
            /\ LastXref' = -1 /\ Idx' = -1 /\ Offset' = -1 /\ Entries' = -1
            /\ State' \in {outside, eof}
            /\ State = eof => State' = eof
            /\ lexvars' = lexvars
            /\ items' = Tail(items)]_vars

\* FixXrefs is back in MaybeFindXref after a ResetToHere in the middle of
\* the file
C37_Witness ==
    /\ Events("recover") # {}
    /\ hist[Len(hist)].ev = "recover"
    /\ State = outside
    /\ pc = "MaybeFindXref"
    /\ From = Len(Scratch) - 1 /\ From > 0
    /\ LastXref = -1 /\ Idx = -1 /\ Offset = -1 /\ Entries = -1
    /\ ResetToHere(Cur) = [Cur EXCEPT !.State = outside]

----------------------------------------------------------------------------
(* shrink and the bodies it cannot decode                                  *)

\* the flag a filter name sets, as it stands when item `at` is received:
\* set by the name since the StreamBody before, if any
FlagAt(at, name) ==
    \E k \in 1 .. at - 1 :
        /\ toks[k].Typ = ItemName /\ toks[k].Val = name
        /\ \A m \in k + 1 .. at - 1 : toks[m].Typ # ItemStreamBody

\* the first max bytes of raw, encoded again as the flags ask
CutRaw(raw, max, z, a85) ==
    LET cut == SubSeq(raw, 1, max)
        zz == IF z THEN deflate(cut) ELSE cut
    IN IF a85 THEN re85(zz) ELSE zz

\* C38: when a StreamBody under /ASCII85Decode or /FlateDecode did not
\* decode, so that the payload left is empty or the raw body itself, and the
\* raw body is longer than max, what shrink writes for it is the first max
\* bytes of the raw body, encoded again.
C38_RawFallback ==
    \A k \in BodyEvents :
        LET raw == toks[hist[k].at].Val
            z == FlagAt(hist[k].at, FlateDecode)
            a85 == FlagAt(hist[k].at, ASCII85Decode)
        IN (/\ z \/ a85
            /\ hist[k].payload \in {<<>>, raw}
            /\ Len(raw) > doc.max)
           => hist[k].out = CutRaw(raw, doc.max, z, a85)

====
